---- MODULE Spec2Model ----
(***************************************************************************)
(* Model of the tokenization and classification engine of the             *)
(* TuringMachine syntax highlighter: the three sequential tokenizers      *)
(* (turingPython.py, turingSQL.py, turingRacket.py) and the multicore     *)
(* pipeline (turingPythonParalel.py).                                     *)
(*                                                                         *)
(* Source text, lexemes and token values are strings; Python's 0-based    *)
(* texto[i] and texto[a:b] are the operators Car and Rebanada.            *)
(***************************************************************************)
EXTENDS Integers, Sequences, FiniteSets, TLC

VARIABLES
    perfil,             \* the tokenizer that runs: "python", "sql", "racket", "multicore"
    texto,              \* contenido_archivo, the input text
    pc,                 \* position of the running tokenizer
    i,                  \* read position of the scanner loop
    tokens,             \* tokens_texto: the lexemes (valor, posicion) scanned so far
    indice,             \* index of the next lexeme of the classification loop
    maquina,            \* estado_actual and buffer_token of the machine instance
    tokens_procesados,  \* tokens appended by the classification loop
    num_procesos,       \* worker count of the multicore run
    chunks,             \* the chunks _dividir_en_chunks returned
    futuros,            \* per chunk: the state of its future and what it holds
    todos_los_tokens,   \* the slot array of the reassembly, indexed by chunk id
    estadisticas_procesos, \* the per-worker statistics, in collection order
    tokens_finales,     \* the reassembled stream of the multicore run
    estadisticas_finales, \* the metrics returned with the stream
    anterior,           \* what an earlier run on the same text returned
    num_cores,          \* mp.cpu_count(), the number of hardware cores
    argumento           \* the num_procesos argument of the call, 0 for None

vars == <<perfil, texto, pc, i, tokens, indice, maquina, tokens_procesados,
          num_procesos, chunks, futuros, todos_los_tokens, estadisticas_procesos,
          tokens_finales, estadisticas_finales, anterior, num_cores, argumento>>

varsSecuencial == <<i, indice, maquina, tokens_procesados>>
varsLlamada == <<num_cores, argumento>>
varsMulticore == <<num_procesos, chunks, futuros, todos_los_tokens,
                   estadisticas_procesos, tokens_finales, estadisticas_finales,
                   anterior, num_cores, argumento>>

(***************************************************************************)
(* Bounds of the explored inputs.                                          *)
(***************************************************************************)
MaxLen == 3
MaxLenMulticore == 2
MaxProcesos == 3
MaxPosicionFalla == 1
MaxCores == 4

(***************************************************************************)
(* Python string primitives.                                               *)
(***************************************************************************)
Min(a, b) == IF a < b THEN a ELSE b
Max(a, b) == IF a > b THEN a ELSE b

\* texto[k] for 0 <= k < len(texto)
Car(s, k) == SubSeq(s, k + 1, k + 1)

\* texto[a:b] for 0 <= a, with the end clamped as Python slices do
Rebanada(s, a, b) ==
    IF a >= Min(b, Len(s)) THEN "" ELSE SubSeq(s, a + 1, Min(b, Len(s)))

startswith(s, p) == Len(s) >= Len(p) /\ SubSeq(s, 1, Len(p)) = p
endswith(s, p) == Len(s) >= Len(p) /\ SubSeq(s, Len(s) - Len(p) + 1, Len(s)) = p

RECURSIVE contiene(_, _)
\* c in s, for a one-character c
contiene(s, c) ==
    IF s = "" THEN FALSE
    ELSE IF Car(s, 0) = c THEN TRUE ELSE contiene(Tail(s), c)

(***************************************************************************)
(* Characters a string of the model cannot hold as they are: SANY reads no *)
(* backtick inside a string, and TLC keeps only ASCII characters intact in *)
(* the strings of a state.  A control character that no source file names  *)
(* stands for each of them.  The letters are there because str.isalpha,    *)
(* str.isalnum and str.upper are Unicode-aware.                            *)
(***************************************************************************)
Backtick == ""
EAguda == ""
EAgudaMayuscula == ""
Lambda == ""
LambdaMayuscula == ""

\* string.ascii_lowercase and string.ascii_uppercase, followed by the two
\* letters outside ASCII
Minusculas == <<"a", "b", "c", "d", "e", "f", "g", "h", "i", "j", "k", "l", "m",
                "n", "o", "p", "q", "r", "s", "t", "u", "v", "w", "x", "y", "z",
                EAguda, Lambda>>
Mayusculas == <<"A", "B", "C", "D", "E", "F", "G", "H", "I", "J", "K", "L", "M",
                "N", "O", "P", "Q", "R", "S", "T", "U", "V", "W", "X", "Y", "Z",
                EAgudaMayuscula, LambdaMayuscula>>

ascii_letters == {Minusculas[k] : k \in 1..26} \cup {Mayusculas[k] : k \in 1..26}
Letras == {Minusculas[k] : k \in 1..28} \cup {Mayusculas[k] : k \in 1..28}
Digitos == {"0", "1", "2", "3", "4", "5", "6", "7", "8", "9"}
Blancos == {" ", "\t", "\n", "\r", "\f"}

isalpha(c) == c \in Letras
isdigit(c) == c \in Digitos
isalnum(c) == c \in Letras \cup Digitos

upper_car(c) ==
    IF \E k \in 1..28 : Minusculas[k] = c
    THEN Mayusculas[CHOOSE k \in 1..28 : Minusculas[k] = c]
    ELSE c

lower_car(c) ==
    IF \E k \in 1..28 : Mayusculas[k] = c
    THEN Minusculas[CHOOSE k \in 1..28 : Mayusculas[k] = c]
    ELSE c

RECURSIVE upper(_)
upper(s) == IF s = "" THEN "" ELSE upper_car(Car(s, 0)) \o upper(Tail(s))

RECURSIVE lower(_)
lower(s) == IF s = "" THEN "" ELSE lower_car(Car(s, 0)) \o lower(Tail(s))

RECURSIVE todos(_, _)
\* all(c in S for c in s)
todos(s, S) == IF s = "" THEN TRUE ELSE Car(s, 0) \in S /\ todos(Tail(s), S)

\* s.isspace(): non-empty and whitespace only
isspace(s) == s # "" /\ todos(s, Blancos)

RECURSIVE lstrip(_)
lstrip(s) == IF s # "" /\ Car(s, 0) \in Blancos THEN lstrip(Tail(s)) ELSE s

RECURSIVE rstrip(_)
rstrip(s) ==
    IF s # "" /\ Car(s, Len(s) - 1) \in Blancos
    THEN rstrip(SubSeq(s, 1, Len(s) - 1)) ELSE s

strip(s) == rstrip(lstrip(s))

(***************************************************************************)
(* The lexicon of each profile: the tables built by the __init__ of each   *)
(* machine class.                                                          *)
(***************************************************************************)

keywords_python ==
    {"False", "None", "True", "and", "as", "assert", "async", "await", "break", "class",
     "continue", "def", "del", "elif", "else", "except", "finally", "for", "from",
     "global", "if", "import", "in", "is", "lambda", "nonlocal", "not", "or", "pass",
     "raise", "return", "try", "while", "with", "yield"}

operadores_python ==
    {"!", "!=", "%", "%=", "&", "&=", "*", "**", "**=", "*=", "+", "+=", "-", "-=", "/",
     "//", "//=", "/=", "<", "<<", "<<=", "<=", "<>", "=", "==", ">", ">=", ">>", ">>=",
     "@", "@=", "^", "^=", "|", "|=", "~"}

delimitadores_python ==
    {"(", ")", ",", ".", ":", ";", "[", "]", "{", "}"}

simbolos_alfabeto_python ==
    {"\t", "\n", "\r", " ", "!", "\"", "#", "'", "(", ")", "*", "+", ",", "-", ".", "/",
     ":", ";", "<", "=", ">", "[", "]", "_", "{", "}"}

alfabeto_python == ascii_letters \cup Digitos \cup simbolos_alfabeto_python

keywords_sql ==
    {"ADD", "ALIAS", "ALL", "ALTER", "AND", "AS", "ASC", "AUTO_INCREMENT", "AVG",
     "BEGIN", "BETWEEN", "BIGINT", "BINARY", "BIT", "BLOB", "BOOL", "BOOLEAN", "BY",
     "CALL", "CASE", "CAST", "CHANGE", "CHAR", "CHECK", "CLOB", "CLOSE", "COALESCE",
     "COLUMN", "COMMIT", "CONDITION", "CONSTRAINT", "CONTINUE", "CONVERT", "COUNT",
     "CREATE", "CURRENT", "CURSOR", "DATABASE", "DATE", "DATETIME", "DECIMAL", "DECLARE",
     "DEFAULT", "DELETE", "DENY", "DESC", "DESCRIBE", "DISTINCT", "DOUBLE", "DROP",
     "ELSE", "ELSEIF", "END", "ENDIF", "EXCEPT", "EXISTS", "EXIT", "EXPLAIN", "EXTRACT",
     "FALSE", "FETCH", "FLOAT", "FOLLOWING", "FOR", "FOREIGN", "FROM", "FULL",
     "FUNCTION", "GRANT", "GREATEST", "GROUP", "HANDLER", "HAVING", "IF", "ILIKE", "IN",
     "INDEX", "INNER", "INSERT", "INT", "INTEGER", "INTERSECT", "INTO", "IS", "ITERATE",
     "JOIN", "JSON", "KEY", "LEAST", "LEAVE", "LEFT", "LIKE", "LIMIT", "LOOP", "MAX",
     "MIN", "MODIFY", "NCHAR", "NOT", "NULL", "NULLIF", "NUMERIC", "NVARCHAR", "OFFSET",
     "ON", "OPEN", "OR", "ORDER", "OUTER", "OVER", "PARTITION", "PRECEDING", "PRIMARY",
     "PROCEDURE", "RANGE", "REAL", "REFERENCES", "RENAME", "REPEAT", "REVOKE", "RIGHT",
     "ROLLBACK", "ROW", "ROWS", "SAVEPOINT", "SCHEMA", "SELECT", "SEQUENCE", "SET",
     "SHOW", "SMALLINT", "SQLEXCEPTION", "SQLSTATE", "SQLWARNING", "START", "STDDEV",
     "SUBSTRING", "SUM", "TABLE", "TEXT", "THEN", "TIME", "TIMESTAMP", "TINYINT",
     "TRANSACTION", "TRIGGER", "TRIM", "TRUE", "TRUNCATE", "UNBOUNDED", "UNDO", "UNION",
     "UNIQUE", "UNTIL", "UPDATE", "USE", "USING", "VALUES", "VARBINARY", "VARCHAR",
     "VARIANCE", "VIEW", "WHEN", "WHERE", "WHILE", "WITH", "XML", "YEAR"}

functions_sql ==
    {"ABS", "ACOS", "ASIN", "ATAN", "ATAN2", "CAST", "CEIL", "CEILING", "CHARINDEX",
     "CHOOSE", "COALESCE", "CONCAT", "CONVERT", "COS", "CUME_DIST", "CURDATE", "CURTIME",
     "DATEADD", "DATEDIFF", "DATEPART", "DATE_FORMAT", "DAY", "DAYOFWEEK", "DAYOFYEAR",
     "DEGREES", "DENSE_RANK", "EXP", "FIRST_VALUE", "FLOOR", "FORMAT", "GETDATE",
     "GREATEST", "HOUR", "IIF", "INSTR", "ISNULL", "LAG", "LAST_DAY", "LAST_VALUE",
     "LEAD", "LEAST", "LEFT", "LENGTH", "LN", "LOCATE", "LOG", "LOG10", "LOWER", "LPAD",
     "LTRIM", "MINUTE", "MOD", "MONTH", "NOW", "NTH_VALUE", "NTILE", "NULLIF", "PARSE",
     "PERCENT_RANK", "PI", "POSITION", "POW", "POWER", "QUARTER", "RADIANS", "RAND",
     "RANDOM", "RANK", "REPLACE", "REVERSE", "RIGHT", "ROUND", "ROW_NUMBER", "RPAD",
     "RTRIM", "SECOND", "SIGN", "SIN", "SQRT", "STR_TO_DATE", "SUBSTR", "SUBSTRING",
     "SYSDATE", "TAN", "TODAY", "TO_CHAR", "TO_DATE", "TO_NUMBER", "TRIM", "TRUNC",
     "TRUNCATE", "TRY_CAST", "TRY_CONVERT", "UPPER", "WEEK", "YEAR"}

datatypes_sql ==
    {"BFILE", "BINARY_DOUBLE", "BINARY_FLOAT", "BLOB", "CLOB", "ENUM", "GEOMETRY",
     "INTERVAL", "LINESTRING", "LONG", "LONGTEXT", "MEDIUMINT", "MEDIUMTEXT", "NCLOB",
     "NUMBER", "NVARCHAR2", "POINT", "POLYGON", "RAW", "ROWID", "SET", "TIMESTAMP",
     "TINYTEXT", "UROWID", "VARCHAR2"}

operadores_sql ==
    {"!", "!=", "%", "&&", "*", "*=", "+", "+=", "-", "-=", "/", "/=", "::", ":=", "<",
     "<=", "<>", "=", ">", ">=", "@", "_", "||"}

delimitadores_sql ==
    {"(", ")", ",", ".", ";", "[", "]", "{", "}"}

simbolos_alfabeto_sql ==
    {"\t", "\n", "\r", "!", "\"", "#", "'", "(", ")", "*", "+", ",", "-", ".", "/", ":",
     ";", "<", "=", ">", "@", "[", "]", "_", "{", "}"}

alfabeto_sql == ascii_letters \cup Digitos \cup simbolos_alfabeto_sql \cup {Backtick}

keywords_racket ==
    {"and", "andmap", "apply", "begin", "begin0", "call-with-current-continuation",
     "call-with-escape-continuation", "call-with-input-file", "call-with-output-file",
     "call/cc", "call/ec", "case", "class", "class*", "compile", "compose", "cond",
     "contract", "curry", "datum->syntax", "define", "define-for-syntax", "define-macro",
     "define-struct", "define-syntax", "define-values", "define/contract", "do", "eval",
     "except-in", "expand", "filter", "foldl", "foldr", "for", "for*", "for*/list",
     "for/fold", "for/hash", "for/list", "for/sum", "for/vector", "if", "inner",
     "instantiate", "interface", "lambda", "let", "let*", "let*-values", "let-values",
     "letrec", "map", "match", "match-lambda", "match-let", "mixin", "module", "module*",
     "module+", "new", "not", "only-in", "or", "ormap", "parameterize", "prefix-in",
     "procedure?", "provide", "provide/contract", "quasiquote", "quote", "raise",
     "raise-argument-error", "raise-arity-error", "raise-syntax-error",
     "raise-type-error", "rename-in", "require", "send", "send*", "send/apply", "set!",
     "super", "syntax", "syntax->datum", "syntax-case", "syntax-e", "syntax-parameter",
     "syntax-parameterize", "syntax-rules", "time", "unless", "unquote",
     "unquote-splicing", "values", "void", "when", "with-handlers",
     "with-input-from-file", "with-output-to-file", "with-syntax", Lambda}

builtins_racket ==
    {"abs", "acos", "angle", "append", "asin", "assoc", "assq", "assv", "atan",
     "boolean?", "caaar", "caadr", "caar", "cadar", "caddr", "cadr", "car", "cdaar",
     "cdadr", "cdar", "cddar", "cdddr", "cddr", "cdr", "ceiling", "char->integer",
     "char-alphabetic?", "char-ci<=?", "char-ci<?", "char-ci=?", "char-ci>=?",
     "char-ci>?", "char-downcase", "char-lower-case?", "char-numeric?", "char-ready?",
     "char-upcase", "char-upper-case?", "char-whitespace?", "char<=?", "char<?",
     "char=?", "char>=?", "char>?", "char?", "close-input-port", "close-output-port",
     "complex?", "cons", "cos", "current-input-port", "current-output-port",
     "denominator", "display", "eof-object?", "eq?", "equal?", "eqv?", "error", "even?",
     "exact->inexact", "exact?", "exp", "expt", "floor", "gcd", "gensym", "imag-part",
     "inexact->exact", "inexact?", "input-port?", "integer->char", "integer?", "lcm",
     "length", "list", "list*", "list->string", "list->vector", "list-ref", "list-tail",
     "list?", "load", "log", "magnitude", "make-polar", "make-rectangular",
     "make-vector", "max", "member", "memq", "memv", "min", "modulo", "negative?",
     "newline", "not", "null?", "number->string", "number?", "numerator", "odd?",
     "open-input-file", "open-output-file", "output-port?", "pair?", "peek-char",
     "port?", "positive?", "procedure?", "quotient", "raise", "rational?", "read",
     "read-char", "real-part", "real?", "remainder", "reverse", "round", "sin", "sqrt",
     "string->list", "string->number", "string->symbol", "string-append", "string-ci<=?",
     "string-ci<?", "string-ci=?", "string-ci>=?", "string-ci>?", "string-copy",
     "string-downcase", "string-fill!", "string-length", "string-ref", "string-set!",
     "string-upcase", "string<=?", "string<?", "string=?", "string>=?", "string>?",
     "string?", "substring", "symbol->string", "symbol?", "tan", "truncate", "vector",
     "vector->list", "vector-fill!", "vector-length", "vector-ref", "vector-set!",
     "vector?", "with-handlers", "write", "write-char", "zero?"}

operadores_racket ==
    {"*", "+", "-", "/", "<", "<=", "=", ">", ">=", "gcd", "lcm", "modulo", "quotient",
     "remainder"}

delimitadores_racket ==
    {"(", ")", "[", "]", "{", "}"}

simbolos_alfabeto_racket ==
    {"\t", "\n", "\r", " ", "!", "\"", "#", "$", "%", "&", "'", "(", ")", "*", "+", ",",
     "-", ".", "/", ":", ";", "<", "=", ">", "?", "@", "[", "\\", "]", "^", "_", "{",
     "|", "}", "~"}

alfabeto_racket == ascii_letters \cup Digitos \cup simbolos_alfabeto_racket \cup {Backtick}

(***************************************************************************)
(* Scanner loops shared by the three _separar_tokens functions.           *)
(***************************************************************************)
RECURSIVE Mientras(_, _, _)
\* while i < len(texto) and texto[i] in S: i += 1
Mientras(s, k, S) ==
    IF k < Len(s) /\ Car(s, k) \in S THEN Mientras(s, k + 1, S) ELSE k

RECURSIVE HastaDespuesDe(_, _, _)
\* a run that also takes the character that ends it
HastaDespuesDe(s, k, S) ==
    IF k >= Len(s) THEN k
    ELSE IF Car(s, k) \in S THEN k + 1
    ELSE HastaDespuesDe(s, k + 1, S)

RECURSIVE MientrasNo(_, _, _)
\* while i < len(texto) and texto[i] not in S: i += 1
MientrasNo(s, k, S) ==
    IF k < Len(s) /\ Car(s, k) \notin S THEN MientrasNo(s, k + 1, S) ELSE k

\* a string body in which a backslash skips nothing
CuerpoSinEscape(s, k, quote) == MientrasNo(s, k, {quote})

RECURSIVE CuerpoString(_, _, _)
\* while i < len(texto) and texto[i] != quote: skip escapes
CuerpoString(s, k, quote) ==
    IF k < Len(s) /\ Car(s, k) # quote
    THEN IF Car(s, k) = "\\"
         THEN CuerpoString(s, IF k + 1 < Len(s) THEN k + 2 ELSE k + 1, quote)
         ELSE CuerpoString(s, k + 1, quote)
    ELSE k

\* the string rule from the position after the opening quote
FinString(s, k, quote) ==
    LET j == CuerpoString(s, k, quote)
    IN  IF j < Len(s) THEN j + 1 ELSE j

\* the exponent part of the number rule, from the position after the digits
FinExponente(s, j) ==
    IF j < Len(s) /\ Car(s, j) \in {"e", "E"}
    THEN LET k == j + 1
             k2 == IF k < Len(s) /\ Car(s, k) \in {"+", "-"} THEN k + 1 ELSE k
         IN  Mientras(s, k2, Digitos)
    ELSE j

(***************************************************************************)
(* turingPython.py: TuringMachine._separar_tokens, one loop iteration.    *)
(* Returns the read position after the lexeme that starts at k.           *)
(***************************************************************************)
OperadoresDoblesPython ==
    {"==", "!=", "<=", ">=", "+=", "-=", "*=", "/=", "//", "**", "<<", ">>",
     "&=", "|=", "^=", "<>"}
OperadoresTriplesPython == {"//=", "**=", "<<=", ">>="}
InicioOperadorPython == {"+", "-", "*", "/", "<", ">", "=", "!", "&", "|", "^", "~"}
DelimitadoresScanner == {"(", ")", "[", "]", "{", "}", ",", ":", ";", "."}

FinOperadorPython(s, k) ==
    IF k < Len(s) - 1 /\ Rebanada(s, k, k + 2) \in OperadoresDoblesPython
    THEN k + 2
    ELSE IF k < Len(s) - 1 /\ k < Len(s) - 2
            /\ Rebanada(s, k, k + 3) \in OperadoresTriplesPython
         THEN k + 3
         ELSE k + 1

FinNumeroPython(s, k) ==
    IF k < Len(s) - 1 /\ Car(s, k) = "0"
       /\ Car(s, k + 1) \in {"x", "X", "o", "O", "b", "B"}
    THEN Mientras(s, k + 2, Letras \cup Digitos)
    ELSE FinExponente(s, Mientras(s, k, Digitos \cup {"."}))

separar_paso_python(s, k) ==
    LET c == Car(s, k)
    IN  IF c \in {" ", "\t"} THEN Mientras(s, k, {" ", "\t"})
        ELSE IF c \in {"\n", "\r"} THEN k + 1
        ELSE IF c \in {"\"", "'"} THEN FinString(s, k + 1, c)
        ELSE IF k < Len(s) - 1 /\ c = "f" /\ Car(s, k + 1) \in {"\"", "'"}
             THEN FinString(s, k + 2, Car(s, k + 1))
        ELSE IF c = "#" THEN MientrasNo(s, k, {"\n", "\r"})
        ELSE IF c \in DelimitadoresScanner THEN k + 1
        ELSE IF c \in InicioOperadorPython THEN FinOperadorPython(s, k)
        ELSE IF isdigit(c) \/ (c = "." /\ k + 1 < Len(s) /\ isdigit(Car(s, k + 1)))
             THEN FinNumeroPython(s, k)
        ELSE IF isalpha(c) \/ c = "_"
             THEN Mientras(s, k, Letras \cup Digitos \cup {"_"})
        ELSE k + 1

(***************************************************************************)
(* Block comments of the query and symbolic scanners.                      *)
(***************************************************************************)
RECURSIVE FinBloque(_, _, _)
\* while i < len(texto) - 1: if texto[i:i+2] == cierre: i += 2; break
\*                           i += 1
FinBloque(s, k, cierre) ==
    IF k < Len(s) - 1
    THEN IF Rebanada(s, k, k + 2) = cierre THEN k + 2 ELSE FinBloque(s, k + 1, cierre)
    ELSE k

(***************************************************************************)
(* turingSQL.py: SQLTuringMachine._separar_tokens_sql, one loop iteration. *)
(***************************************************************************)
\* the two-character list with the equality operator added
OperadoresDoblesConIgual ==
    {"==", "!=", "<>", "<=", ">=", "||", "&&", ":=", "+=", "-=", "*=", "/=", "::"}

OperadoresDoblesSQL ==
    {"!=", "<>", "<=", ">=", "||", "&&", ":=", "+=", "-=", "*=", "/=", "::"}
InicioOperadorSQL == {"+", "-", "*", "/", "<", ">", "=", "!", ":", "|", "&", "%"}

FinOperadorSQL(s, k) ==
    IF k < Len(s) - 1 /\ Rebanada(s, k, k + 2) \in OperadoresDoblesSQL
    THEN k + 2
    ELSE k + 1

separar_paso_sql(s, k) ==
    LET c == Car(s, k)
    IN  IF c \in {" ", "\t"} THEN Mientras(s, k, {" ", "\t"})
        ELSE IF c \in {"\n", "\r"} THEN k + 1
        ELSE IF c \in {"\"", "'", Backtick} THEN FinString(s, k + 1, c)
        ELSE IF k < Len(s) - 1 /\ Rebanada(s, k, k + 2) = "--"
             THEN MientrasNo(s, k, {"\n", "\r"})
        ELSE IF k < Len(s) - 1 /\ Rebanada(s, k, k + 2) = "/*"
             THEN FinBloque(s, k + 2, "*/")
        ELSE IF c = "@" /\ k + 1 < Len(s)
                /\ (isalpha(Car(s, k + 1)) \/ Car(s, k + 1) = "_")
             THEN Mientras(s, k + 1, Letras \cup Digitos \cup {"_"})
        ELSE IF c \in DelimitadoresScanner THEN k + 1
        ELSE IF c \in InicioOperadorSQL THEN FinOperadorSQL(s, k)
        ELSE IF isdigit(c) \/ (c = "." /\ k + 1 < Len(s) /\ isdigit(Car(s, k + 1)))
             THEN FinExponente(s, Mientras(s, k, Digitos \cup {"."}))
        ELSE IF isalpha(c) \/ c = "_"
             THEN Mientras(s, k, Letras \cup Digitos \cup {"_"})
        ELSE k + 1

(***************************************************************************)
(* turingRacket.py: RacketTuringMachine._separar_tokens_racket, one loop   *)
(* iteration.                                                              *)
(***************************************************************************)
SimbolosInicioRacket ==
    {"+", "-", "*", "/", "<", ">", "=", "!", "?", ":", "$", "%", "&", "^", "~", "@", "_", Lambda}

es_inicio_identificador(c) == isalpha(c) \/ c \in SimbolosInicioRacket
es_caracter_identificador(c) == isalnum(c) \/ c \in SimbolosInicioRacket \cup {"-"}

CaracteresIdentificadorRacket == Letras \cup Digitos \cup SimbolosInicioRacket \cup {"-"}

\* literals that start with '#': #t #f #true #false #\c #\newline #\space #\tab
FinLiteralRacket(s, k) ==
    LET j == k + 1
    IN  IF j < Len(s)
        THEN IF Car(s, j) \in {"t", "f"}
             THEN IF Rebanada(s, k, j + 1) = "#t" /\ j + 1 < Len(s) - 3
                     /\ Rebanada(s, j + 1, j + 4) = "rue"
                  THEN j + 4
                  ELSE IF Rebanada(s, k, j + 1) = "#f" /\ j + 1 < Len(s) - 4
                          /\ Rebanada(s, j + 1, j + 5) = "alse"
                       THEN j + 5
                       ELSE j + 1
             ELSE IF Car(s, j) = "\\"
                  THEN IF j + 1 < Len(s)
                       THEN IF Rebanada(s, j + 1, j + 8) = "newline" THEN j + 8
                            ELSE IF Rebanada(s, j + 1, j + 6) = "space" THEN j + 6
                            ELSE IF Rebanada(s, j + 1, j + 4) = "tab" THEN j + 4
                            ELSE j + 2
                       ELSE j + 1
                  ELSE j
        ELSE j

RECURSIVE FinListaCitada(_, _, _)
\* while i < len(texto) and nivel_parentesis > 0
FinListaCitada(s, k, nivel) ==
    IF k < Len(s) /\ nivel > 0
    THEN FinListaCitada(s, k + 1,
             IF Car(s, k) = "(" THEN nivel + 1
             ELSE IF Car(s, k) = ")" THEN nivel - 1 ELSE nivel)
    ELSE k

RECURSIVE FinSimboloCitado(_, _)
\* the loop after the quote of a quoted symbol
FinSimboloCitado(s, k) ==
    IF k < Len(s) /\ (es_caracter_identificador(Car(s, k)) \/ Car(s, k) = "(")
    THEN IF Car(s, k) = "(" THEN FinListaCitada(s, k + 1, 1)
         ELSE FinSimboloCitado(s, k + 1)
    ELSE k

\* the number rule without its fraction branch
FinNumeroSinFraccion(s, k) ==
    LET a == IF Car(s, k) \in {"+", "-"} THEN k + 1 ELSE k
        b == Mientras(s, a, Digitos)
        d == IF b < Len(s) /\ Car(s, b) = "." THEN Mientras(s, b + 1, Digitos)
             ELSE b
    IN  IF d < Len(s) /\ Car(s, d) \in {"i", "I"} THEN d + 1 ELSE d

FinNumeroRacket(s, k) ==
    LET a == IF Car(s, k) \in {"+", "-"} THEN k + 1 ELSE k
        b == Mientras(s, a, Digitos)
        d == IF b < Len(s) /\ Car(s, b) = "." THEN Mientras(s, b + 1, Digitos)
             ELSE IF b < Len(s) /\ Car(s, b) = "/" THEN Mientras(s, b + 1, Digitos)
             ELSE b
    IN  IF d < Len(s) /\ Car(s, d) \in {"i", "I"} THEN d + 1 ELSE d

separar_paso_racket(s, k) ==
    LET c == Car(s, k)
    IN  IF c \in {" ", "\t"} THEN Mientras(s, k, {" ", "\t"})
        ELSE IF c \in {"\n", "\r"} THEN k + 1
        ELSE IF c = "\"" THEN FinString(s, k + 1, "\"")
        ELSE IF c = ";" THEN MientrasNo(s, k, {"\n", "\r"})
        ELSE IF k < Len(s) - 1 /\ Rebanada(s, k, k + 2) = "#|"
             THEN FinBloque(s, k + 2, "|#")
        ELSE IF c = "#" THEN FinLiteralRacket(s, k)
        ELSE IF c = "'" THEN FinSimboloCitado(s, k + 1)
        ELSE IF c \in {"(", ")", "[", "]", "{", "}"} THEN k + 1
        ELSE IF isdigit(c)
                \/ (c \in {"+", "-"} /\ k + 1 < Len(s) /\ isdigit(Car(s, k + 1)))
             THEN FinNumeroRacket(s, k)
        ELSE IF es_inicio_identificador(c)
             THEN Mientras(s, k, CaracteresIdentificadorRacket)
        ELSE k + 1

(***************************************************************************)
(* One iteration of the scanner loop of the active profile, and the whole  *)
(* loop: the list of (valor, posicion) lexemes.                            *)
(***************************************************************************)
\* the loop without its last rule: an unmatched character is not consumed
separar_paso_sin_respaldo(p, s, k) ==
    IF Car(s, k) \in {"$", "?", "\\"} THEN k
    ELSE IF p \in {"python", "multicore"} THEN separar_paso_python(s, k)
    ELSE IF p = "sql" THEN separar_paso_sql(s, k)
    ELSE separar_paso_racket(s, k)

separar_paso(p, s, k) ==
    IF p \in {"python", "multicore"} THEN separar_paso_python(s, k)
    ELSE IF p = "sql" THEN separar_paso_sql(s, k)
    ELSE separar_paso_racket(s, k)

\* Lexema with the surrounding whitespace of the slice stripped
LexemaRecortado(s, k, fin) == [valor |-> strip(Rebanada(s, k, fin)), posicion |-> k]

\* Lexema tagged with the read position after the slice instead of its start
LexemaPosicionFinal(s, k, fin) == [valor |-> Rebanada(s, k, fin), posicion |-> fin]

Lexema(s, k, fin) == [valor |-> Rebanada(s, k, fin), posicion |-> k]

RECURSIVE separar_desde(_, _, _, _)
\* at most m iterations of the loop from index k: the lexemes appended and the
\* index reached (the iterations are halved to keep the evaluation shallow)
separar_desde(p, s, k, m) ==
    IF k >= Len(s) \/ m = 0 THEN [tokens |-> <<>>, i |-> k]
    ELSE IF m = 1
    THEN LET fin == separar_paso(p, s, k)
         IN  [tokens |-> <<Lexema(s, k, fin)>>, i |-> fin]
    ELSE LET a == separar_desde(p, s, k, m \div 2)
             b == separar_desde(p, s, a.i, m - (m \div 2))
         IN  [tokens |-> a.tokens \o b.tokens, i |-> b.i]

\* every iteration consumes at least one character, so Len(s) iterations
\* reach the end of the text
separar_tokens(p, s) == separar_desde(p, s, 0, Len(s)).tokens

(***************************************************************************)
(* Python's int() and float() as the numeric predicates use them: both     *)
(* strip surrounding whitespace, take an optional sign and allow single    *)
(* underscores between digits; on any other text they raise ValueError,    *)
(* which the predicates turn into False.                                   *)
(***************************************************************************)
DigitosHex == Digitos \cup {"a", "b", "c", "d", "e", "f", "A", "B", "C", "D", "E", "F"}
DigitosOct == {"0", "1", "2", "3", "4", "5", "6", "7"}
DigitosBin == {"0", "1"}

\* the first index of s that holds a character of S, or -1
PrimerIndice(s, S) ==
    IF \E k \in 0..(Len(s) - 1) : Car(s, k) \in S
    THEN CHOOSE k \in 0..(Len(s) - 1) :
             Car(s, k) \in S /\ \A j \in 0..(k - 1) : Car(s, j) \notin S
    ELSE -1

\* digit (["_"] digit)* over the digits D
EsDigitPart(s, D) ==
    /\ s # ""
    /\ todos(s, D \cup {"_"})
    /\ Car(s, 0) \in D
    /\ Car(s, Len(s) - 1) \in D
    /\ \A k \in 0..(Len(s) - 2) : ~(Car(s, k) = "_" /\ Car(s, k + 1) = "_")

SinSigno(s) == IF s # "" /\ Car(s, 0) \in {"+", "-"} THEN Tail(s) ELSE s

\* int(texto): base 10
int_ok(s) == EsDigitPart(SinSigno(strip(s)), Digitos)

\* int(texto, 0): the base is taken from the prefix, as in a Python literal
int0_ok(s) ==
    LET u == SinSigno(strip(s))
        resto == Rebanada(u, 2, Len(u))
        cuerpo == IF resto # "" /\ Car(resto, 0) = "_" THEN Tail(resto) ELSE resto
    IN  IF Len(u) >= 2 /\ Car(u, 0) = "0" /\ Car(u, 1) \in {"x", "X"}
        THEN EsDigitPart(cuerpo, DigitosHex)
        ELSE IF Len(u) >= 2 /\ Car(u, 0) = "0" /\ Car(u, 1) \in {"o", "O"}
        THEN EsDigitPart(cuerpo, DigitosOct)
        ELSE IF Len(u) >= 2 /\ Car(u, 0) = "0" /\ Car(u, 1) \in {"b", "B"}
        THEN EsDigitPart(cuerpo, DigitosBin)
        ELSE EsDigitPart(u, Digitos) /\ (Car(u, 0) = "0" => todos(u, {"0", "_"}))

EsMantisa(m) ==
    LET p == PrimerIndice(m, {"."})
        a == Rebanada(m, 0, p)
        b == Rebanada(m, p + 1, Len(m))
    IN  IF p = -1 THEN EsDigitPart(m, Digitos)
        ELSE /\ a = "" \/ EsDigitPart(a, Digitos)
             /\ b = "" \/ EsDigitPart(b, Digitos)
             /\ ~(a = "" /\ b = "")

\* float(texto)
float_ok(s) ==
    LET u == SinSigno(strip(s))
        e == PrimerIndice(u, {"e", "E"})
    IN  \/ lower(u) \in {"inf", "infinity", "nan"}
        \/ IF e = -1 THEN EsMantisa(u)
           ELSE /\ EsMantisa(Rebanada(u, 0, e))
                /\ EsDigitPart(SinSigno(Rebanada(u, e + 1, Len(u))), Digitos)

\* turingPython.py and turingPythonParalel.py: _es_numero
es_numero_python(s) ==
    IF contiene(s, ".") \/ contiene(lower(s), "e") THEN float_ok(s) ELSE int0_ok(s)

\* turingSQL.py: _es_numero
es_numero_sql(s) == IF contiene(s, ".") THEN float_ok(s) ELSE int_ok(s)

\* str.split('/') gives exactly two parts: the text holds exactly one '/'
DosPartes(s) ==
    LET p == PrimerIndice(s, {"/"})
    IN  p # -1 /\ ~contiene(Rebanada(s, p + 1, Len(s)), "/")

\* turingRacket.py: _es_numero_racket
es_numero_racket(s) ==
    LET p == PrimerIndice(s, {"/"})
    IN  IF endswith(s, "i") \/ endswith(s, "I")
        THEN LET numero_parte == Rebanada(s, 0, Len(s) - 1)
             IN  numero_parte # "" => float_ok(numero_parte)
        ELSE IF contiene(s, "/") /\ ~startswith(s, "/") /\ DosPartes(s)
        THEN int_ok(Rebanada(s, 0, p)) /\ int_ok(Rebanada(s, p + 1, Len(s)))
        ELSE IF contiene(s, ".") THEN float_ok(s) ELSE int_ok(s)

\* _es_identificador_valido (imperative, parallel and query classifiers)
es_identificador_valido(s) ==
    /\ s # ""
    /\ isalpha(Car(s, 0)) \/ Car(s, 0) = "_"
    /\ todos(Tail(s), Letras \cup Digitos \cup {"_"})

\* turingRacket.py: _es_identificador_valido_racket
es_identificador_valido_racket(s) ==
    /\ s # ""
    /\ es_inicio_identificador(Car(s, 0))
    /\ todos(Tail(s), CaracteresIdentificadorRacket)

(***************************************************************************)
(* The fallback state machines: transicion of each machine class.  The     *)
(* result is the pair (nuevo_estado, accion); buffer is buffer_token, to   *)
(* which the caller has already appended the character.                    *)
(***************************************************************************)
Tr(e, a) == [estado |-> e, accion |-> a]

transicion_python(estado_actual, buffer, c) ==
    IF c \notin alfabeto_python THEN Tr("NO_ACEPTACION", "RECHAZAR")
    ELSE IF estado_actual = "INICIAL"
    THEN IF isalpha(c) \/ c = "_" THEN Tr("KEYWORD_CANDIDATO", "LEER")
         ELSE IF isdigit(c) THEN Tr("NUMERO_INICIADO", "LEER")
         ELSE IF c \in {"\"", "'"} THEN Tr("STRING_INICIADO", "LEER")
         ELSE IF c = "#" THEN Tr("COMENTARIO_INICIADO", "LEER")
         ELSE IF c \in InicioOperadorPython THEN Tr("OPERADOR_INICIADO", "LEER")
         ELSE IF c \in delimitadores_python THEN Tr("DELIMITADOR_DETECTADO", "ACEPTAR")
         ELSE IF c \in {" ", "\t", "\n", "\r"} THEN Tr("ESPACIO_DETECTADO", "ACEPTAR")
         ELSE Tr("NO_ACEPTACION", "RECHAZAR")
    ELSE IF estado_actual = "KEYWORD_CANDIDATO"
    THEN IF isalnum(c) \/ c = "_" THEN Tr("KEYWORD_CANDIDATO", "LEER")
         ELSE IF buffer \in keywords_python
              THEN Tr("KEYWORD_CONFIRMADO", "ACEPTAR_RETROCEDER")
              ELSE Tr("IDENTIFICADOR_COMPLETO", "ACEPTAR_RETROCEDER")
    ELSE IF estado_actual = "NUMERO_INICIADO"
    THEN IF isdigit(c) THEN Tr("NUMERO_INICIADO", "LEER")
         ELSE IF c = "." THEN Tr("NUMERO_DECIMAL", "LEER")
         ELSE Tr("NUMERO_COMPLETO", "ACEPTAR_RETROCEDER")
    ELSE IF estado_actual = "NUMERO_DECIMAL"
    THEN IF isdigit(c) THEN Tr("NUMERO_DECIMAL", "LEER")
         ELSE Tr("NUMERO_COMPLETO", "ACEPTAR_RETROCEDER")
    ELSE IF estado_actual = "STRING_INICIADO"
    THEN IF c = "\\" THEN Tr("STRING_ESCAPE", "LEER")
         ELSE IF c \in {"\"", "'"} THEN Tr("STRING_COMPLETO", "ACEPTAR")
         ELSE Tr("STRING_INICIADO", "LEER")
    ELSE IF estado_actual = "STRING_ESCAPE" THEN Tr("STRING_INICIADO", "LEER")
    ELSE IF estado_actual = "COMENTARIO_INICIADO"
    THEN IF c \in {"\n", "\r"} THEN Tr("COMENTARIO_COMPLETO", "ACEPTAR_RETROCEDER")
         ELSE Tr("COMENTARIO_INICIADO", "LEER")
    ELSE IF estado_actual = "OPERADOR_INICIADO"
    THEN IF (buffer \o c) \in operadores_python THEN Tr("OPERADOR_INICIADO", "LEER")
         ELSE IF buffer \in operadores_python
              THEN Tr("OPERADOR_COMPLETO", "ACEPTAR_RETROCEDER")
              ELSE Tr("NO_ACEPTACION", "RECHAZAR")
    ELSE Tr("NO_ACEPTACION", "RECHAZAR")

transicion_sql(estado_actual, buffer, c) ==
    IF c \notin alfabeto_sql THEN Tr("NO_ACEPTACION", "RECHAZAR")
    ELSE IF estado_actual = "INICIAL"
    THEN IF isalpha(c) \/ c = "_" THEN Tr("KEYWORD_CANDIDATO", "LEER")
         ELSE IF isdigit(c) THEN Tr("NUMERO_INICIADO", "LEER")
         ELSE IF c \in {"\"", "'", Backtick} THEN Tr("STRING_INICIADO", "LEER")
         ELSE IF c = "-" THEN Tr("COMENTARIO_LINEA_INICIADO", "LEER")
         ELSE IF c = "/" THEN Tr("COMENTARIO_BLOQUE_INICIADO", "LEER")
         ELSE IF c = "@" THEN Tr("VARIABLE_INICIADA", "LEER")
         ELSE IF c \in InicioOperadorSQL THEN Tr("OPERADOR_INICIADO", "LEER")
         ELSE IF c \in delimitadores_sql THEN Tr("DELIMITADOR_DETECTADO", "ACEPTAR")
         ELSE IF c \in {" ", "\t", "\n", "\r"} THEN Tr("ESPACIO_DETECTADO", "ACEPTAR")
         ELSE Tr("NO_ACEPTACION", "RECHAZAR")
    ELSE IF estado_actual = "KEYWORD_CANDIDATO"
    THEN IF isalnum(c) \/ c = "_" THEN Tr("KEYWORD_CANDIDATO", "LEER")
         ELSE IF upper(buffer) \in keywords_sql
              THEN Tr("KEYWORD_CONFIRMADO", "ACEPTAR_RETROCEDER")
              ELSE Tr("IDENTIFICADOR_COMPLETO", "ACEPTAR_RETROCEDER")
    ELSE IF estado_actual = "NUMERO_INICIADO"
    THEN IF isdigit(c) THEN Tr("NUMERO_INICIADO", "LEER")
         ELSE IF c = "." THEN Tr("NUMERO_DECIMAL", "LEER")
         ELSE Tr("NUMERO_COMPLETO", "ACEPTAR_RETROCEDER")
    ELSE IF estado_actual = "NUMERO_DECIMAL"
    THEN IF isdigit(c) THEN Tr("NUMERO_DECIMAL", "LEER")
         ELSE Tr("NUMERO_COMPLETO", "ACEPTAR_RETROCEDER")
    ELSE IF estado_actual = "STRING_INICIADO"
    THEN IF c = "\\" THEN Tr("STRING_ESCAPE", "LEER")
         ELSE IF c \in {"\"", "'", Backtick} THEN Tr("STRING_COMPLETO", "ACEPTAR")
         ELSE Tr("STRING_INICIADO", "LEER")
    ELSE IF estado_actual = "STRING_ESCAPE" THEN Tr("STRING_INICIADO", "LEER")
    ELSE IF estado_actual = "COMENTARIO_LINEA_INICIADO"
    THEN IF c = "-" THEN Tr("COMENTARIO_LINEA_INICIADO", "LEER")
         ELSE IF c \in {"\n", "\r"} THEN Tr("COMENTARIO_COMPLETO", "ACEPTAR_RETROCEDER")
         ELSE Tr("COMENTARIO_LINEA_INICIADO", "LEER")
    ELSE IF estado_actual = "COMENTARIO_BLOQUE_INICIADO"
    THEN IF c = "*" THEN Tr("COMENTARIO_BLOQUE_INICIADO", "LEER")
         ELSE IF c = "*" THEN Tr("COMENTARIO_BLOQUE_ASTERISCO", "LEER")
         ELSE Tr("COMENTARIO_BLOQUE_INICIADO", "LEER")
    ELSE IF estado_actual = "COMENTARIO_BLOQUE_ASTERISCO"
    THEN IF c = "/" THEN Tr("COMENTARIO_COMPLETO", "ACEPTAR")
         ELSE IF c = "*" THEN Tr("COMENTARIO_BLOQUE_ASTERISCO", "LEER")
         ELSE Tr("COMENTARIO_BLOQUE_INICIADO", "LEER")
    ELSE IF estado_actual = "VARIABLE_INICIADA"
    THEN IF isalnum(c) \/ c = "_" THEN Tr("VARIABLE_INICIADA", "LEER")
         ELSE Tr("VARIABLE_COMPLETA", "ACEPTAR_RETROCEDER")
    ELSE IF estado_actual = "OPERADOR_INICIADO"
    THEN IF (buffer \o c) \in operadores_sql THEN Tr("OPERADOR_INICIADO", "LEER")
         ELSE IF buffer \in operadores_sql
              THEN Tr("OPERADOR_COMPLETO", "ACEPTAR_RETROCEDER")
              ELSE Tr("NO_ACEPTACION", "RECHAZAR")
    ELSE Tr("NO_ACEPTACION", "RECHAZAR")

transicion_racket(estado_actual, buffer, c) ==
    IF c \notin alfabeto_racket THEN Tr("NO_ACEPTACION", "RECHAZAR")
    ELSE IF estado_actual = "INICIAL"
    THEN IF c = ";" THEN Tr("COMENTARIO_LINEA_INICIADO", "LEER")
         ELSE IF c = "#" THEN Tr("BOOLEAN_LITERAL_INICIADO", "LEER")
         ELSE IF c = "'" THEN Tr("SIMBOLO_INICIADO", "LEER")
         ELSE IF c = "\"" THEN Tr("STRING_INICIADO", "LEER")
         ELSE IF isdigit(c) \/ c \in {"+", "-"} THEN Tr("NUMERO_INICIADO", "LEER")
         ELSE IF c \in delimitadores_racket THEN Tr("DELIMITADOR_DETECTADO", "ACEPTAR")
         ELSE IF c \in {" ", "\t", "\n", "\r"} THEN Tr("ESPACIO_DETECTADO", "ACEPTAR")
         ELSE IF es_inicio_identificador(c) THEN Tr("KEYWORD_CANDIDATO", "LEER")
         ELSE Tr("NO_ACEPTACION", "RECHAZAR")
    ELSE IF estado_actual = "KEYWORD_CANDIDATO"
    THEN IF es_caracter_identificador(c) THEN Tr("KEYWORD_CANDIDATO", "LEER")
         ELSE IF rstrip(buffer) \in keywords_racket
              THEN Tr("KEYWORD_CONFIRMADO", "ACEPTAR_RETROCEDER")
              ELSE Tr("IDENTIFICADOR_COMPLETO", "ACEPTAR_RETROCEDER")
    ELSE IF estado_actual = "NUMERO_INICIADO"
    THEN IF isdigit(c) THEN Tr("NUMERO_INICIADO", "LEER")
         ELSE IF c = "." THEN Tr("NUMERO_DECIMAL", "LEER")
         ELSE IF c = "/" THEN Tr("NUMERO_FRACCION", "LEER")
         ELSE IF c \in {"i", "I"} THEN Tr("NUMERO_COMPLEJO", "LEER")
         ELSE Tr("NUMERO_COMPLETO", "ACEPTAR_RETROCEDER")
    ELSE IF estado_actual = "NUMERO_DECIMAL"
    THEN IF isdigit(c) THEN Tr("NUMERO_DECIMAL", "LEER")
         ELSE IF c \in {"i", "I"} THEN Tr("NUMERO_COMPLEJO", "LEER")
         ELSE Tr("NUMERO_COMPLETO", "ACEPTAR_RETROCEDER")
    ELSE IF estado_actual = "NUMERO_FRACCION"
    THEN IF isdigit(c) THEN Tr("NUMERO_FRACCION", "LEER")
         ELSE Tr("NUMERO_COMPLETO", "ACEPTAR_RETROCEDER")
    ELSE IF estado_actual = "NUMERO_COMPLEJO" THEN Tr("NUMERO_COMPLETO", "ACEPTAR")
    ELSE IF estado_actual = "STRING_INICIADO"
    THEN IF c = "\\" THEN Tr("STRING_ESCAPE", "LEER")
         ELSE IF c = "\"" THEN Tr("STRING_COMPLETO", "ACEPTAR")
         ELSE Tr("STRING_INICIADO", "LEER")
    ELSE IF estado_actual = "STRING_ESCAPE" THEN Tr("STRING_INICIADO", "LEER")
    ELSE IF estado_actual = "COMENTARIO_LINEA_INICIADO"
    THEN IF c \in {"\n", "\r"} THEN Tr("COMENTARIO_COMPLETO", "ACEPTAR_RETROCEDER")
         ELSE Tr("COMENTARIO_LINEA_INICIADO", "LEER")
    ELSE IF estado_actual = "BOOLEAN_LITERAL_INICIADO"
    THEN IF c \in {"t", "f"} THEN Tr("BOOLEAN_LITERAL_COMPLETO", "ACEPTAR")
         ELSE IF c = "\\" THEN Tr("CARACTER_LITERAL_INICIADO", "LEER")
         ELSE IF c = "|" THEN Tr("COMENTARIO_BLOQUE_INICIADO", "LEER")
         ELSE Tr("NO_ACEPTACION", "RECHAZAR")
    ELSE IF estado_actual = "CARACTER_LITERAL_INICIADO"
    THEN Tr("CARACTER_LITERAL_COMPLETO", "ACEPTAR")
    ELSE IF estado_actual = "COMENTARIO_BLOQUE_INICIADO"
    THEN IF c = "|" THEN Tr("COMENTARIO_BLOQUE_PIPE", "LEER")
         ELSE Tr("COMENTARIO_BLOQUE_INICIADO", "LEER")
    ELSE IF estado_actual = "COMENTARIO_BLOQUE_PIPE"
    THEN IF c = "#" THEN Tr("COMENTARIO_COMPLETO", "ACEPTAR")
         ELSE IF c = "|" THEN Tr("COMENTARIO_BLOQUE_PIPE", "LEER")
         ELSE Tr("COMENTARIO_BLOQUE_INICIADO", "LEER")
    ELSE IF estado_actual = "SIMBOLO_INICIADO"
    THEN IF es_caracter_identificador(c) \/ c = "(" THEN Tr("SIMBOLO_INICIADO", "LEER")
         ELSE Tr("SIMBOLO_COMPLETO", "ACEPTAR_RETROCEDER")
    ELSE Tr("NO_ACEPTACION", "RECHAZAR")

transicion(p, estado_actual, buffer, c) ==
    IF p = "python" THEN transicion_python(estado_actual, buffer, c)
    ELSE IF p = "sql" THEN transicion_sql(estado_actual, buffer, c)
    ELSE transicion_racket(estado_actual, buffer, c)

(***************************************************************************)
(* _procesar_con_maquina_turing: the lexeme plus one sentinel blank is     *)
(* replayed through transicion.  The result carries the token's tipo and   *)
(* valido, the machine attributes left behind, the number of transitions   *)
(* made and the last accion.                                               *)
(***************************************************************************)
\* the result that is marked valid whatever its tipo
ResSiempreValido(tipo, valido, e, b, n, a) ==
    [tipo |-> tipo, valido |-> TRUE, estado_actual |-> e, buffer_token |-> b,
     pasos |-> n, accion |-> a]

Res(tipo, valido, e, b, n, a) ==
    [tipo |-> tipo, valido |-> valido, estado_actual |-> e, buffer_token |-> b,
     pasos |-> n, accion |-> a]

EstadosNumero(p) ==
    IF p = "racket" THEN {"NUMERO_COMPLETO", "NUMERO_INICIADO", "NUMERO_COMPLEJO"}
    ELSE {"NUMERO_COMPLETO", "NUMERO_INICIADO"}

\* the accepting states the loop maps to a kind, per profile
EstadosAceptados(p) ==
    {"KEYWORD_CONFIRMADO", "IDENTIFICADOR_COMPLETO", "STRING_COMPLETO",
     "COMENTARIO_COMPLETO", "DELIMITADOR_DETECTADO", "ESPACIO_DETECTADO"}
    \cup EstadosNumero(p)
    \cup (IF p = "python" THEN {"OPERADOR_COMPLETO"}
          ELSE IF p = "sql" THEN {"OPERADOR_COMPLETO", "VARIABLE_COMPLETA"}
          ELSE {"SIMBOLO_COMPLETO", "CARACTER_LITERAL_COMPLETO",
                "BOOLEAN_LITERAL_COMPLETO"})

\* the kind of an accepted lexeme, from the accepting state
TipoDeEstado(p, nuevo_estado, token_texto) ==
    IF nuevo_estado = "KEYWORD_CONFIRMADO" THEN "KEYWORD"
    ELSE IF nuevo_estado = "IDENTIFICADOR_COMPLETO"
    THEN IF p = "racket" /\ token_texto \in builtins_racket THEN "BUILTIN"
         ELSE IF p = "racket" /\ token_texto \in operadores_racket THEN "OPERATOR"
         ELSE "IDENTIFIER"
    ELSE IF nuevo_estado \in EstadosNumero(p) THEN "NUMBER"
    ELSE IF nuevo_estado = "STRING_COMPLETO" THEN "STRING"
    ELSE IF nuevo_estado = "COMENTARIO_COMPLETO" THEN "COMMENT"
    ELSE IF nuevo_estado = "OPERADOR_COMPLETO" THEN "OPERATOR"
    ELSE IF nuevo_estado = "DELIMITADOR_DETECTADO" THEN "DELIMITER"
    ELSE IF nuevo_estado = "VARIABLE_COMPLETA" THEN "VARIABLE"
    ELSE IF nuevo_estado = "SIMBOLO_COMPLETO" THEN "SYMBOL"
    ELSE IF nuevo_estado = "CARACTER_LITERAL_COMPLETO" THEN "CHARACTER"
    ELSE IF nuevo_estado = "BOOLEAN_LITERAL_COMPLETO" THEN "BOOLEAN"
    ELSE "WHITESPACE"

\* the classification by final state, after the loop
PorEstadoFinal(p, token_texto, e, b, n, a) ==
    IF e = "KEYWORD_CANDIDATO"
    THEN IF p = "python"
         THEN Res(IF token_texto \in keywords_python THEN "KEYWORD" ELSE "IDENTIFIER",
                  TRUE, e, b, n, a)
         ELSE IF p = "sql"
         THEN Res(IF upper(token_texto) \in keywords_sql THEN "KEYWORD"
                  ELSE IF upper(token_texto) \in functions_sql THEN "FUNCTION"
                  ELSE IF upper(token_texto) \in datatypes_sql THEN "DATATYPE"
                  ELSE "IDENTIFIER", TRUE, e, b, n, a)
         ELSE Res(IF token_texto \in keywords_racket THEN "KEYWORD"
                  ELSE IF token_texto \in builtins_racket THEN "BUILTIN"
                  ELSE IF token_texto \in operadores_racket THEN "OPERATOR"
                  ELSE "IDENTIFIER", TRUE, e, b, n, a)
    ELSE IF p # "racket" /\ e \in {"NUMERO_INICIADO", "NUMERO_DECIMAL"}
    THEN Res("NUMBER", TRUE, e, b, n, a)
    ELSE IF p = "sql" /\ e = "VARIABLE_INICIADA"
    THEN Res("VARIABLE", TRUE, e, b, n, a)
    ELSE Res("UNKNOWN", FALSE, e, b, n, a)

RECURSIVE correr_maquina(_, _, _, _, _)
\* the for loop from character k of texto_con_centinela
correr_maquina(p, token_texto, k, e, b) ==
    LET texto_con_centinela == token_texto \o " "
    IN  IF k >= Len(texto_con_centinela)
        THEN PorEstadoFinal(p, token_texto, e, b, k, "LEER")
        ELSE LET c == Car(texto_con_centinela, k)
                 b2 == b \o c
                 t == transicion(p, e, b2, c)
             IN  IF t.accion = "RECHAZAR"
                 THEN Res("UNKNOWN", FALSE, e, b2, k + 1, t.accion)
                 ELSE IF t.accion \in {"ACEPTAR", "ACEPTAR_RETROCEDER"}
                 THEN IF t.estado \in EstadosAceptados(p)
                      THEN Res(TipoDeEstado(p, t.estado, token_texto), TRUE,
                               e, b2, k + 1, t.accion)
                      ELSE PorEstadoFinal(p, token_texto, e, b2, k + 1, t.accion)
                 ELSE correr_maquina(p, token_texto, k + 1, t.estado, b2)

\* the machine run on the lexeme followed by two sentinels
procesar_con_doble_centinela(p, token_texto) ==
    correr_maquina(p, token_texto \o " ", 0, "INICIAL", "")

procesar_con_maquina_turing(p, token_texto) ==
    correr_maquina(p, token_texto, 0, "INICIAL", "")

(***************************************************************************)
(* procesar_token_individual: the fast-path predicates of each classifier, *)
(* first match wins; "" when none matches.                                 *)
(***************************************************************************)
via_rapida_python(t) ==
    IF \/ startswith(t, "\"") /\ endswith(t, "\"")
       \/ startswith(t, "'") /\ endswith(t, "'")
       \/ startswith(t, "f\"") /\ endswith(t, "\"")
       \/ startswith(t, "f'") /\ endswith(t, "'")
    THEN "STRING"
    ELSE IF startswith(t, "#") THEN "COMMENT"
    ELSE IF es_numero_python(t) THEN "NUMBER"
    ELSE IF t \in operadores_python THEN "OPERATOR"
    ELSE IF t \in delimitadores_python THEN "DELIMITER"
    ELSE IF t \in keywords_python THEN "KEYWORD"
    ELSE IF isspace(t) THEN "WHITESPACE"
    ELSE IF es_identificador_valido(t) THEN "IDENTIFIER"
    ELSE ""

\* the fast path with exact-case keyword, function and datatype lookup
via_rapida_sql_exacta(t) ==
    IF \/ startswith(t, "\"") /\ endswith(t, "\"")
       \/ startswith(t, "'") /\ endswith(t, "'")
       \/ startswith(t, Backtick) /\ endswith(t, Backtick)
    THEN "STRING"
    ELSE IF startswith(t, "--") \/ (startswith(t, "/*") /\ endswith(t, "*/"))
    THEN "COMMENT"
    ELSE IF startswith(t, "@") /\ Len(t) > 1 THEN "VARIABLE"
    ELSE IF es_numero_sql(t) THEN "NUMBER"
    ELSE IF t \in operadores_sql THEN "OPERATOR"
    ELSE IF t \in delimitadores_sql THEN "DELIMITER"
    ELSE IF t \in keywords_sql THEN "KEYWORD"
    ELSE IF t \in functions_sql THEN "FUNCTION"
    ELSE IF t \in datatypes_sql THEN "DATATYPE"
    ELSE IF isspace(t) THEN "WHITESPACE"
    ELSE IF es_identificador_valido(t) THEN "IDENTIFIER"
    ELSE ""

via_rapida_sql(t) ==
    IF \/ startswith(t, "\"") /\ endswith(t, "\"")
       \/ startswith(t, "'") /\ endswith(t, "'")
       \/ startswith(t, Backtick) /\ endswith(t, Backtick)
    THEN "STRING"
    ELSE IF startswith(t, "--") \/ (startswith(t, "/*") /\ endswith(t, "*/"))
    THEN "COMMENT"
    ELSE IF startswith(t, "@") /\ Len(t) > 1 THEN "VARIABLE"
    ELSE IF es_numero_sql(t) THEN "NUMBER"
    ELSE IF t \in operadores_sql THEN "OPERATOR"
    ELSE IF t \in delimitadores_sql THEN "DELIMITER"
    ELSE IF upper(t) \in keywords_sql THEN "KEYWORD"
    ELSE IF upper(t) \in functions_sql THEN "FUNCTION"
    ELSE IF upper(t) \in datatypes_sql THEN "DATATYPE"
    ELSE IF isspace(t) THEN "WHITESPACE"
    ELSE IF es_identificador_valido(t) THEN "IDENTIFIER"
    ELSE ""

via_rapida_racket(t) ==
    IF startswith(t, "\"") /\ endswith(t, "\"") THEN "STRING"
    ELSE IF startswith(t, ";") \/ (startswith(t, "#|") /\ endswith(t, "|#"))
    THEN "COMMENT"
    ELSE IF t \in {"#t", "#f", "#true", "#false"} THEN "BOOLEAN"
    ELSE IF startswith(t, "#\\") /\ Len(t) >= 3 THEN "CHARACTER"
    ELSE IF startswith(t, "'") THEN "SYMBOL"
    ELSE IF es_numero_racket(t) THEN "NUMBER"
    ELSE IF t \in delimitadores_racket THEN "DELIMITER"
    ELSE IF t \in keywords_racket THEN "KEYWORD"
    ELSE IF t \in builtins_racket THEN "BUILTIN"
    ELSE IF t \in operadores_racket THEN "OPERATOR"
    ELSE IF isspace(t) THEN "WHITESPACE"
    ELSE IF es_identificador_valido_racket(t) THEN "IDENTIFIER"
    ELSE ""

via_rapida(p, t) ==
    IF p \in {"python", "multicore"} THEN via_rapida_python(t)
    ELSE IF p = "sql" THEN via_rapida_sql(t)
    ELSE via_rapida_racket(t)

\* procesar_token_individual of the machine class of profile p ("multicore" is
\* TuringMachineInstance, the worker's classifier, which has no slow path):
\* tipo and valido of the token, and the machine attributes left behind
clasificar(p, token_texto) ==
    LET r == via_rapida(p, token_texto)
    IN  IF r # "" THEN Res(r, TRUE, "INICIAL", "", 0, "")
        ELSE IF p = "multicore" THEN Res("UNKNOWN", FALSE, "INICIAL", "", 0, "")
        ELSE procesar_con_maquina_turing(p, token_texto)

\* a classification that keeps what the machine instance held before
sin_reiniciar(m) == m

\* reiniciar_estado followed by the second clearing of buffer_token
reiniciar_estado(m) == [estado_actual |-> "INICIAL", buffer_token |-> ""]

\* procesar_token_individual called on a machine instance whose attributes are
\* m, left there by the lexemes it classified before
clasificar_desde(p, m, token_texto) ==
    LET m0 == reiniciar_estado(m)
        r == via_rapida(p, token_texto)
    IN  IF r # "" THEN Res(r, TRUE, m0.estado_actual, m0.buffer_token, 0, "")
        ELSE IF p = "multicore"
        THEN Res("UNKNOWN", FALSE, m0.estado_actual, m0.buffer_token, 0, "")
        ELSE correr_maquina(p, token_texto, 0, m0.estado_actual, m0.buffer_token)

Token(tipo, valor, posicion, valido) ==
    [tipo |-> tipo, valor |-> valor, posicion |-> posicion, valido |-> valido]

procesar_token_individual(p, token_texto, posicion) ==
    LET r == clasificar(p, token_texto)
    IN  Token(r.tipo, token_texto, posicion, r.valido)

(***************************************************************************)
(* The explored inputs: every text of at most MaxLen characters over each  *)
(* of a few small alphabets, each alphabet chosen to exercise one family   *)
(* of scanner rules, and a list of longer sample texts.                    *)
(***************************************************************************)
RECURSIVE Textos(_, _)
Textos(A, n) ==
    IF n = 0 THEN {""}
    ELSE LET T == Textos(A, n - 1)
         IN  T \cup {t \o c : t \in {x \in T : Len(x) = n - 1}, c \in A}

RECURSIVE VariantesCaso(_)
\* every upper/lower-case variant of a word
VariantesCaso(w) ==
    IF w = "" THEN {""}
    ELSE {c \o r : c \in {lower_car(Car(w, 0)), upper_car(Car(w, 0))},
                   r \in VariantesCaso(Tail(w))}

AlfCadenas == {"\"", "'", "\\", "f", "#", "\n"}
AlfComentariosSQL == {"-", "/", "*", "\"", "\n", "a"}
AlfComentariosRacket == {"#", "|", ";", "\"", "\n", "t"}
AlfOperadores == {"=", "/", "*", "<", ">", "!"}
AlfOperadores2 == {":", "=", "%", "@", "|", "&"}
AlfNumeros == {"1", "0", ".", "e", "/", "x"}
AlfPalabras == {"i", "f", "I", "F", "_", "$"}

Alfabetos ==
    {AlfCadenas, AlfComentariosSQL, AlfComentariosRacket, AlfOperadores,
     AlfOperadores2, AlfNumeros, AlfPalabras}

TextosMuestra ==
    VariantesCaso("select") \cup
    {"0x1A", "\"abc", "x = 3/4", "#true", "#false", "#| #| |# |#", "'(a (b))",
     "f\"a\\\"", "1.2.3", "a" \o Backtick \o "b" \o Backtick, "/**/", "#||#",
     "1e-1", "--a\nb", "a <= 1", "x**=2", "\"a\\\"", "'a''", "@v := 1", "(+ 1 2)",
     "3/4", "12/34", "(gcd 4 6)", "/* /* */ */",
     "\"\\\"\"a", "\"#\"#\"\n"}

TextosEntrada == UNION {Textos(A, MaxLen) : A \in Alfabetos} \cup TextosMuestra

Perfiles == {"python", "sql", "racket"}

\* no earlier run
Ninguna == [num_procesos |-> 0, tokens_finales |-> <<>>, fallas |-> 0]

\* no metrics: _generar_estadisticas_multicore has not returned
SinEstadisticas == [total_tokens |-> -1, tokens_invalidos |-> -1,
                    conteo_tipos |-> <<>>, estadisticas_procesos |-> <<>>]

MaquinaInicial == [estado_actual |-> "INICIAL", buffer_token |-> ""]

(***************************************************************************)
(* tokenizar_archivo of the three sequential machine classes.              *)
(***************************************************************************)
InitSecuencial ==
    /\ perfil \in Perfiles
    /\ texto \in TextosEntrada
    /\ pc = "separar"
    /\ i = 0
    /\ tokens = <<>>
    /\ indice = 0
    /\ maquina = MaquinaInicial
    /\ tokens_procesados = <<>>
    /\ num_procesos = 0
    /\ chunks = <<>>
    /\ futuros = <<>>
    /\ todos_los_tokens = <<>>
    /\ estadisticas_procesos = <<>>
    /\ tokens_finales = <<>>
    /\ estadisticas_finales = SinEstadisticas
    /\ anterior = Ninguna
    /\ num_cores = 0
    /\ argumento = 0

\* one iteration of the while loop of _separar_tokens
SepararPaso ==
    /\ perfil \in Perfiles
    /\ pc = "separar"
    /\ i < Len(texto)
    /\ LET fin == separar_paso(perfil, texto, i)
       IN  /\ tokens' = Append(tokens, Lexema(texto, i, fin))
           /\ i' = fin
    /\ UNCHANGED <<perfil, texto, pc, indice, maquina, tokens_procesados>>
    /\ UNCHANGED varsMulticore

\* the while loop ends: _separar_tokens returns the lexemes
SepararFin ==
    /\ pc = "separar"
    /\ i >= Len(texto)
    /\ pc' = "procesar"
    /\ UNCHANGED <<perfil, texto, i, tokens, indice, maquina, tokens_procesados>>
    /\ UNCHANGED varsMulticore

\* an iteration that leaves a rejected token out of the stream
ProcesarPasoDescarta ==
    /\ pc = "procesar"
    /\ indice < Len(tokens)
    /\ LET texto_token == tokens[indice + 1].valor
           posicion == tokens[indice + 1].posicion
           r == clasificar(perfil, texto_token)
       IN  IF strip(texto_token) = ""
           THEN /\ tokens_procesados' =
                       Append(tokens_procesados,
                              Token("WHITESPACE", texto_token, posicion, TRUE))
                /\ UNCHANGED maquina
           ELSE /\ tokens_procesados' =
                       IF r.valido
                       THEN Append(tokens_procesados,
                                   Token(r.tipo, texto_token, posicion, r.valido))
                       ELSE tokens_procesados
                /\ maquina' = [estado_actual |-> r.estado_actual,
                               buffer_token |-> r.buffer_token]
    /\ indice' = indice + 1
    /\ UNCHANGED <<perfil, texto, pc, i, tokens>>
    /\ UNCHANGED varsMulticore

\* one iteration of the for loop of tokenizar_archivo
ProcesarPaso ==
    /\ pc = "procesar"
    /\ indice < Len(tokens)
    /\ LET texto_token == tokens[indice + 1].valor
           posicion == tokens[indice + 1].posicion
           r == clasificar_desde(perfil, maquina, texto_token)
       IN  IF strip(texto_token) = ""
           THEN /\ tokens_procesados' =
                       IF texto_token # ""
                       THEN Append(tokens_procesados,
                                   Token("WHITESPACE", texto_token, posicion, TRUE))
                       ELSE tokens_procesados
                /\ UNCHANGED maquina
           ELSE /\ tokens_procesados' =
                       Append(tokens_procesados,
                              Token(r.tipo, texto_token, posicion, r.valido))
                /\ maquina' = [estado_actual |-> r.estado_actual,
                               buffer_token |-> r.buffer_token]
    /\ indice' = indice + 1
    /\ UNCHANGED <<perfil, texto, pc, i, tokens>>
    /\ UNCHANGED varsMulticore

\* the for loop ends: tokenizar_archivo returns tokens_procesados
ProcesarFin ==
    /\ pc = "procesar"
    /\ indice >= Len(tokens)
    /\ pc' = "fin"
    /\ UNCHANGED <<perfil, texto, i, tokens, indice, maquina, tokens_procesados>>
    /\ UNCHANGED varsMulticore

(***************************************************************************)
(* turingPythonParalel.py: the chunks of _dividir_en_chunks.               *)
(***************************************************************************)
MinChunk == 100

\* the chunk whose ids are counted from one
ChunkConIdDesdeUno(tokens_texto, chunk_id, inicio_global, fin_global) ==
    [tokens_texto |-> tokens_texto, chunk_id |-> chunk_id + 1,
     inicio_global |-> inicio_global, fin_global |-> fin_global]

ChunkProcesamiento(tokens_texto, chunk_id, inicio_global, fin_global) ==
    [tokens_texto |-> tokens_texto, chunk_id |-> chunk_id,
     inicio_global |-> inicio_global, fin_global |-> fin_global]

\* the division without the rule that gives the last chunk the remaining lexemes
dividir_sin_resto(tokens_texto, n_procesos) ==
    LET n == Len(tokens_texto)
        min_chunk_size == Max(MinChunk, n \div (n_procesos * 2))
        chunk_size == Max(min_chunk_size, n \div n_procesos)
        inicio(k) == k * chunk_size
        fin(k) == Min((k + 1) * chunk_size, n)
        chunk(k) ==
            LET chunk_tokens == SubSeq(tokens_texto, inicio(k) + 1, fin(k))
                ultimo == chunk_tokens[Len(chunk_tokens)]
            IN  ChunkProcesamiento(
                    chunk_tokens, k,
                    IF chunk_tokens # <<>> THEN chunk_tokens[1].posicion ELSE 0,
                    IF chunk_tokens # <<>>
                    THEN ultimo.posicion + Len(ultimo.valor) ELSE 0)
        creados == {k \in 0..(n_procesos - 1) : inicio(k) < n}
    IN  IF n < n_procesos
        THEN [k \in 1..n |->
                 ChunkProcesamiento(
                     <<tokens_texto[k]>>, k - 1, tokens_texto[k].posicion,
                     tokens_texto[k].posicion + Len(tokens_texto[k].valor))]
        ELSE [k \in 1..Cardinality(creados) |-> chunk(k - 1)]

\* the division without the branch for fewer lexemes than workers
dividir_sin_degradar(tokens_texto, n_procesos) ==
    LET n == Len(tokens_texto)
        min_chunk_size == Max(MinChunk, n \div (n_procesos * 2))
        chunk_size == Max(min_chunk_size, n \div n_procesos)
        inicio(k) == k * chunk_size
        fin(k) == IF k = n_procesos - 1 THEN n ELSE Min((k + 1) * chunk_size, n)
        chunk(k) ==
            LET chunk_tokens == SubSeq(tokens_texto, inicio(k) + 1, fin(k))
                ultimo == chunk_tokens[Len(chunk_tokens)]
            IN  ChunkProcesamiento(
                    chunk_tokens, k,
                    IF chunk_tokens # <<>> THEN chunk_tokens[1].posicion ELSE 0,
                    IF chunk_tokens # <<>>
                    THEN ultimo.posicion + Len(ultimo.valor) ELSE 0)
        creados == {k \in 0..(n_procesos - 1) : inicio(k) < n}
    IN  [k \in 1..Cardinality(creados) |-> chunk(k - 1)]

\* the division with the minimum chunk size taken as the chunk size
dividir_por_minimo(tokens_texto, n_procesos) ==
    LET n == Len(tokens_texto)
        chunk_size == Max(MinChunk, n \div (n_procesos * 2))
        inicio(k) == k * chunk_size
        fin(k) == IF k = n_procesos - 1 THEN n ELSE Min((k + 1) * chunk_size, n)
        chunk(k) ==
            LET chunk_tokens == SubSeq(tokens_texto, inicio(k) + 1, fin(k))
                ultimo == chunk_tokens[Len(chunk_tokens)]
            IN  ChunkProcesamiento(
                    chunk_tokens, k,
                    IF chunk_tokens # <<>> THEN chunk_tokens[1].posicion ELSE 0,
                    IF chunk_tokens # <<>>
                    THEN ultimo.posicion + Len(ultimo.valor) ELSE 0)
        creados == {k \in 0..(n_procesos - 1) : inicio(k) < n}
    IN  IF n < n_procesos
        THEN [k \in 1..n |->
                 ChunkProcesamiento(
                     <<tokens_texto[k]>>, k - 1, tokens_texto[k].posicion,
                     tokens_texto[k].posicion + Len(tokens_texto[k].valor))]
        ELSE [k \in 1..Cardinality(creados) |-> chunk(k - 1)]

dividir_en_chunks(tokens_texto, n_procesos) ==
    LET n == Len(tokens_texto)
        min_chunk_size == Max(MinChunk, n \div (n_procesos * 2))
        chunk_size == Max(min_chunk_size, n \div n_procesos)
        inicio(k) == k * chunk_size
        fin(k) == IF k = n_procesos - 1 THEN n ELSE Min((k + 1) * chunk_size, n)
        chunk(k) ==
            LET chunk_tokens == SubSeq(tokens_texto, inicio(k) + 1, fin(k))
                ultimo == chunk_tokens[Len(chunk_tokens)]
            IN  ChunkProcesamiento(
                    chunk_tokens, k,
                    IF chunk_tokens # <<>> THEN chunk_tokens[1].posicion ELSE 0,
                    IF chunk_tokens # <<>>
                    THEN ultimo.posicion + Len(ultimo.valor) ELSE 0)
        creados == {k \in 0..(n_procesos - 1) : inicio(k) < n}
    IN  IF n < n_procesos
        THEN [k \in 1..n |->
                 ChunkProcesamiento(
                     <<tokens_texto[k]>>, k - 1, tokens_texto[k].posicion,
                     tokens_texto[k].posicion + Len(tokens_texto[k].valor))]
        ELSE [k \in 1..Cardinality(creados) |-> chunk(k - 1)]

(***************************************************************************)
(* turingPythonParalel.py: procesar_chunk_multicore.  falla = 0 is the     *)
(* run that classifies every lexeme of the chunk; falla = j > 0 is the run *)
(* in which classifying the j-th lexeme raises, which the except clause    *)
(* catches: the tokens appended so far are returned and errores counts one *)
(* more.                                                                   *)
(***************************************************************************)
Invalidos(ts) == Cardinality({j \in 1..Len(ts) : ~ts[j].valido})

\* the worker with token offsets counted from the start of its chunk
procesar_chunk_relativo(chunk, falla) ==
    LET hechos == IF falla = 0 THEN Len(chunk.tokens_texto) ELSE falla - 1
        procesados ==
            [j \in 1..hechos |->
                procesar_token_individual(
                    "multicore", chunk.tokens_texto[j].valor,
                    chunk.tokens_texto[j].posicion - chunk.inicio_global)]
        errores == Invalidos(procesados) + (IF falla = 0 THEN 0 ELSE 1)
    IN  [chunk_id |-> chunk.chunk_id,
         tokens |-> procesados,
         stats |-> [chunk_id |-> chunk.chunk_id,
                    tokens_procesados |-> Len(procesados),
                    errores |-> errores]]

\* the worker that leaves whitespace lexemes out of its result
procesar_chunk_sin_blancos(chunk, falla) ==
    LET hechos == IF falla = 0 THEN Len(chunk.tokens_texto) ELSE falla - 1
        clasificados ==
            [j \in 1..hechos |->
                procesar_token_individual("multicore", chunk.tokens_texto[j].valor,
                                          chunk.tokens_texto[j].posicion)]
        procesados == SelectSeq(clasificados, LAMBDA t : t.tipo # "WHITESPACE")
        errores == Invalidos(procesados) + (IF falla = 0 THEN 0 ELSE 1)
    IN  [chunk_id |-> chunk.chunk_id,
         tokens |-> procesados,
         stats |-> [chunk_id |-> chunk.chunk_id,
                    tokens_procesados |-> Len(procesados),
                    errores |-> errores]]

procesar_chunk_multicore(chunk, falla) ==
    LET hechos == IF falla = 0 THEN Len(chunk.tokens_texto) ELSE falla - 1
        procesados ==
            [j \in 1..hechos |->
                procesar_token_individual("multicore", chunk.tokens_texto[j].valor,
                                          chunk.tokens_texto[j].posicion)]
        errores == Invalidos(procesados) + (IF falla = 0 THEN 0 ELSE 1)
    IN  [chunk_id |-> chunk.chunk_id,
         tokens |-> procesados,
         stats |-> [chunk_id |-> chunk.chunk_id,
                    tokens_procesados |-> Len(procesados),
                    errores |-> errores]]

SinResultado == [chunk_id |-> -1, tokens |-> <<>>,
                 stats |-> [chunk_id |-> -1, tokens_procesados |-> 0, errores |-> 0]]

Futuro(estado, falla, resultado) ==
    [estado |-> estado, falla |-> falla, resultado |-> resultado]

\* a slot of todos_los_tokens: None until a result is stored in it
SlotNone == [asignado |-> FALSE, tokens |-> <<>>]
Slot(tokens_chunk) == [asignado |-> TRUE, tokens |-> tokens_chunk]

RECURSIVE reconstruir_invertido(_)
\* the slots concatenated from the last to the first
reconstruir_invertido(slots) ==
    IF slots = <<>> THEN <<>>
    ELSE reconstruir_invertido(Tail(slots)) \o
         (IF Head(slots).asignado /\ Head(slots).tokens # <<>>
          THEN Head(slots).tokens ELSE <<>>)

RECURSIVE reconstruir(_)
\* Paso 5: the slots that hold a non-empty list, concatenated in slot order
reconstruir(slots) ==
    IF slots = <<>> THEN <<>>
    ELSE (IF Head(slots).asignado /\ Head(slots).tokens # <<>>
          THEN Head(slots).tokens ELSE <<>>) \o reconstruir(Tail(slots))

(***************************************************************************)
(* The inputs of the multicore run: short texts, which give fewer lexemes  *)
(* than workers, and long texts of more than MinChunk lexemes.             *)
(***************************************************************************)
RECURSIVE Repetir(_, _)
Repetir(unidad, n) ==
    IF n = 0 THEN ""
    ELSE IF n = 1 THEN unidad
    ELSE Repetir(unidad, n \div 2) \o Repetir(unidad, n - (n \div 2))

AlfMulticore == {"a", " ", "=", "\"", "1", "/"}

TextosLargos ==
    {Repetir("(", MinChunk), Repetir("(", MinChunk + 1), Repetir("a ", 51),
     Repetir("x=1\n", 75) \o "y"}

\* texts of the multicore run that hold number literals
TextosMuestraMulticore == {"0x1A", "0x1E", "3/4", "=0x1E"}

TextosMulticore ==
    Textos(AlfMulticore, MaxLenMulticore) \cup TextosLargos \cup TextosMuestraMulticore

\* the worker count without the cap at the number of cores
num_procesos_sin_tope(cores) == Max(2, cores - 1)

\* the worker count used when the num_procesos argument is None
num_procesos_por_defecto(cores) == Min(cores, Max(2, cores - 1))

\* the calls explored, as (cores of the machine, num_procesos argument): each
\* explicit worker count on every text, and no argument on a machine of
\* 1..MaxCores cores on the long and the sample texts
Llamadas(t) ==
    {<<MaxCores, n>> : n \in 1..MaxProcesos}
    \cup (IF t \in TextosLargos \cup TextosMuestraMulticore
          THEN {<<c, 0>> : c \in 1..MaxCores} ELSE {})

InitMulticore ==
    /\ perfil = "multicore"
    /\ texto \in TextosMulticore
    /\ \E llamada \in Llamadas(texto) :
           /\ num_cores = llamada[1]
           /\ argumento = llamada[2]
    /\ num_procesos = 0
    /\ pc = "inicio"
    /\ i = 0
    /\ tokens = <<>>
    /\ indice = 0
    /\ maquina = MaquinaInicial
    /\ tokens_procesados = <<>>
    /\ chunks = <<>>
    /\ futuros = <<>>
    /\ todos_los_tokens = <<>>
    /\ estadisticas_procesos = <<>>
    /\ tokens_finales = <<>>
    /\ estadisticas_finales = SinEstadisticas
    /\ anterior = Ninguna

(***************************************************************************)
(* tokenizar_archivo_multicore up to the submission of the chunks: the     *)
(* scan, the division, the progress line that divides by len(chunks), the  *)
(* slot array and one future per chunk.                                    *)
(***************************************************************************)
Despachar ==
    /\ perfil = "multicore"
    /\ pc = "inicio"
    /\ LET n_procesos == IF argumento = 0 THEN num_procesos_por_defecto(num_cores)
                         ELSE argumento
           tokens_texto == separar_tokens("multicore", texto)
           cs == dividir_en_chunks(tokens_texto, n_procesos)
       IN  /\ num_procesos' = n_procesos
           /\ tokens' = tokens_texto
           /\ chunks' = cs
           /\ IF Len(cs) = 0
              THEN /\ pc' = "excepcion"
                   /\ UNCHANGED <<futuros, todos_los_tokens>>
              ELSE /\ pc' = "recogiendo"
                   /\ todos_los_tokens' = [k \in 1..Len(cs) |-> SlotNone]
                   /\ futuros' = [k \in 1..Len(cs) |-> Futuro("enviado", 0, SinResultado)]
    /\ UNCHANGED <<perfil, texto, estadisticas_procesos, tokens_finales,
                   estadisticas_finales, anterior>>
    /\ UNCHANGED varsSecuencial
    /\ UNCHANGED varsLlamada

\* a worker process runs procesar_chunk_multicore on chunk k to its return
Trabajador(k) ==
    /\ pc = "recogiendo"
    /\ futuros[k].estado = "enviado"
    /\ futuros' = [futuros EXCEPT
                      ![k] = Futuro("hecho", 0, procesar_chunk_multicore(chunks[k], 0))]
    /\ UNCHANGED <<perfil, texto, pc, tokens, num_procesos, chunks, todos_los_tokens,
                   estadisticas_procesos, tokens_finales, estadisticas_finales,
                   anterior>>
    /\ UNCHANGED varsSecuencial
    /\ UNCHANGED varsLlamada

\* the worker of chunk k, with an exception raised while classifying lexeme j
TrabajadorFalla(k, j) ==
    /\ pc = "recogiendo"
    /\ futuros[k].estado = "enviado"
    /\ j <= Len(chunks[k].tokens_texto)
    /\ futuros' = [futuros EXCEPT
                      ![k] = Futuro("hecho", j, procesar_chunk_multicore(chunks[k], j))]
    /\ UNCHANGED <<perfil, texto, pc, tokens, num_procesos, chunks, todos_los_tokens,
                   estadisticas_procesos, tokens_finales, estadisticas_finales,
                   anterior>>
    /\ UNCHANGED varsSecuencial
    /\ UNCHANGED varsLlamada

\* the future of chunk k completes with an exception (the worker process died)
FuturoFalla(k) ==
    /\ pc = "recogiendo"
    /\ futuros[k].estado = "enviado"
    /\ futuros' = [futuros EXCEPT ![k] = Futuro("hecho", -1, SinResultado)]
    /\ UNCHANGED <<perfil, texto, pc, tokens, num_procesos, chunks, todos_los_tokens,
                   estadisticas_procesos, tokens_finales, estadisticas_finales,
                   anterior>>
    /\ UNCHANGED varsSecuencial
    /\ UNCHANGED varsLlamada

\* the collection loop storing each result in the next slot, in arrival order
RecogerPorLlegada(k) ==
    /\ pc = "recogiendo"
    /\ futuros[k].estado = "hecho"
    /\ futuros' = [futuros EXCEPT ![k].estado = "recogido"]
    /\ IF futuros[k].falla = -1
       THEN UNCHANGED <<todos_los_tokens, estadisticas_procesos>>
       ELSE LET r == futuros[k].resultado
            IN  /\ todos_los_tokens' =
                       [todos_los_tokens EXCEPT
                           ![Len(estadisticas_procesos) + 1] = Slot(r.tokens)]
                /\ estadisticas_procesos' = Append(estadisticas_procesos, r.stats)
    /\ UNCHANGED <<perfil, texto, pc, tokens, num_procesos, chunks,
                   tokens_finales, estadisticas_finales, anterior>>
    /\ UNCHANGED varsSecuencial
    /\ UNCHANGED varsLlamada

\* one iteration of the as_completed loop, on a completed future
Recoger(k) ==
    /\ pc = "recogiendo"
    /\ futuros[k].estado = "hecho"
    /\ futuros' = [futuros EXCEPT ![k].estado = "recogido"]
    /\ IF futuros[k].falla = -1
       THEN UNCHANGED <<todos_los_tokens, estadisticas_procesos>>
       ELSE LET r == futuros[k].resultado
            IN  /\ todos_los_tokens' =
                       [todos_los_tokens EXCEPT ![r.chunk_id + 1] = Slot(r.tokens)]
                /\ estadisticas_procesos' = Append(estadisticas_procesos, r.stats)
    /\ UNCHANGED <<perfil, texto, pc, tokens, num_procesos, chunks,
                   tokens_finales, estadisticas_finales, anterior>>
    /\ UNCHANGED varsSecuencial
    /\ UNCHANGED varsLlamada

\* the metrics counting every token as invalid
generar_estadisticas_todo_invalido(ts, stats_procesos) ==
    LET tipos == {ts[j].tipo : j \in 1..Len(ts)}
    IN  [total_tokens |-> Len(ts),
         tokens_invalidos |-> Len(ts),
         conteo_tipos |->
             [tp \in tipos |-> Cardinality({j \in 1..Len(ts) : ts[j].tipo = tp})],
         estadisticas_procesos |-> stats_procesos]

\* the counts of _generar_estadisticas_multicore: total_tokens,
\* tokens_invalidos, conteo_tipos (a count for every tipo that occurs) and the
\* per-worker statistics handed on as they are
generar_estadisticas_multicore(ts, stats_procesos) ==
    LET tipos == {ts[j].tipo : j \in 1..Len(ts)}
    IN  [total_tokens |-> Len(ts),
         tokens_invalidos |-> Len(SelectSeq(ts, LAMBDA t : ~t.valido)),
         conteo_tipos |->
             [tp \in tipos |-> Cardinality({j \in 1..Len(ts) : ts[j].tipo = tp})],
         estadisticas_procesos |-> stats_procesos]

\* after the loop: Paso 5 and _generar_estadisticas_multicore, which divides
\* by len(stats_procesos)
Reconstruir ==
    /\ pc = "recogiendo"
    /\ \A k \in 1..Len(futuros) : futuros[k].estado = "recogido"
    /\ tokens_finales' = reconstruir(todos_los_tokens)
    /\ pc' = IF estadisticas_procesos = <<>> THEN "excepcion" ELSE "fin"
    /\ estadisticas_finales' =
           IF estadisticas_procesos = <<>> THEN estadisticas_finales
           ELSE generar_estadisticas_multicore(reconstruir(todos_los_tokens),
                                               estadisticas_procesos)
    /\ UNCHANGED <<perfil, texto, tokens, num_procesos, chunks, futuros,
                   todos_los_tokens, estadisticas_procesos, anterior>>
    /\ UNCHANGED varsSecuencial
    /\ UNCHANGED varsLlamada

Fallas == Cardinality({k \in 1..Len(futuros) : futuros[k].falla # 0})

\* tokenizar_archivo_multicore is called again on the same text with another
\* worker count; what the finished run, in which no worker faulted, returned
\* is kept in anterior
OtraEjecucion ==
    /\ perfil = "multicore"
    /\ pc = "fin"
    /\ Fallas = 0
    /\ anterior = Ninguna
    /\ anterior' = [num_procesos |-> num_procesos, tokens_finales |-> tokens_finales,
                    fallas |-> Fallas]
    /\ argumento' \in (1..MaxProcesos) \ {num_procesos}
    /\ num_procesos' = 0
    /\ pc' = "inicio"
    /\ tokens' = <<>>
    /\ chunks' = <<>>
    /\ futuros' = <<>>
    /\ todos_los_tokens' = <<>>
    /\ estadisticas_procesos' = <<>>
    /\ tokens_finales' = <<>>
    /\ estadisticas_finales' = SinEstadisticas
    /\ UNCHANGED <<perfil, texto, num_cores>>
    /\ UNCHANGED varsSecuencial

Init == InitSecuencial \/ InitMulticore

Next ==
    \/ SepararPaso
    \/ SepararFin
    \/ ProcesarPaso
    \/ ProcesarFin
    \/ Despachar
    \/ \E k \in 1..Len(futuros) : Trabajador(k)
    \/ \E k \in 1..Len(futuros), j \in 1..MaxPosicionFalla : TrabajadorFalla(k, j)
    \/ \E k \in 1..Len(futuros) : FuturoFalla(k)
    \/ \E k \in 1..Len(futuros) : Recoger(k)
    \/ Reconstruir
    \/ OtraEjecucion

Spec == Init /\ [][Next]_vars

\* the worker process of chunk k ends, by a return or by an exception
TrabajadorTermina(k) ==
    /\ k <= Len(futuros)
    /\ \/ Trabajador(k)
       \/ \E j \in 1..MaxPosicionFalla : TrabajadorFalla(k, j)
       \/ FuturoFalla(k)

\* A started run keeps running: the interpreter executes the loops of the
\* sequential tokenizer, the process pool runs every submitted task to its end,
\* and as_completed hands over every finished future.  The weak fairness of
\* ProcesarPaso and of TrabajadorTermina is written out with the enabling
\* condition of the action as a state predicate.
LiveSpec ==
    /\ Spec
    /\ WF_vars(SepararPaso)
    /\ WF_vars(SepararFin)
    /\ \/ []<>(~(pc = "procesar" /\ indice < Len(tokens)))
       \/ []<><<ProcesarPaso>>_vars
    /\ WF_vars(ProcesarFin)
    /\ \A k \in 1..Max(MaxProcesos, MaxCores) :
           /\ \/ []<>(~(/\ pc = "recogiendo"
                         /\ k <= Len(futuros)
                         /\ futuros[k].estado = "enviado"))
              \/ []<><<TrabajadorTermina(k)>>_vars
           /\ WF_vars(k <= Len(futuros) /\ Recoger(k))
    /\ WF_vars(Reconstruir)

(***************************************************************************)
(* Properties.                                                             *)
(***************************************************************************)
RECURSIVE Concatenar(_, _, _)
\* f[a] \o f[a + 1] \o ... \o f[b], over strings or over sequences
Concatenar(f, a, b) ==
    IF a = b THEN f[a]
    ELSE LET m == (a + b) \div 2
         IN  Concatenar(f, a, m) \o Concatenar(f, m + 1, b)

TextoDe(ts) ==
    IF ts = <<>> THEN "" ELSE Concatenar([k \in 1..Len(ts) |-> ts[k].valor], 1, Len(ts))

\* the token stream the run returned
Flujo == IF perfil = "multicore" THEN tokens_finales ELSE tokens_procesados

\* C1: when a sequential tokenizar_archivo (imperative, query or symbolic) has
\* returned, the valor fields of the returned tokens, concatenated in output
\* order, are the input text.
C1_Losslessness ==
    (perfil \in Perfiles /\ pc = "fin") => TextoDe(tokens_procesados) = texto

\* an unterminated f-string that ends in an escaped quote has been tokenized
C1_Witness ==
    /\ perfil = "python"
    /\ pc = "fin"
    /\ texto = "f\"a\\\""
    /\ Len(tokens_procesados) = 1

\* C2: in the stream a tokenizer returned, sequential or multicore, offsets
\* strictly increase and no token reaches into the next one.
C2_MonotonicOffsets ==
    pc = "fin" =>
        /\ \A a \in 1..Len(Flujo), b \in 1..Len(Flujo) :
               a < b => Flujo[a].posicion < Flujo[b].posicion
        /\ \A a \in 1..(Len(Flujo) - 1) :
               Flujo[a].posicion + Len(Flujo[a].valor) <= Flujo[a + 1].posicion

\* a multicore run of three chunks whose last chunk was collected first
C2_Witness ==
    /\ perfil = "multicore"
    /\ pc = "fin"
    /\ Len(chunks) = 3
    /\ Fallas = 0
    /\ estadisticas_procesos[1].chunk_id = 2
    /\ Len(tokens_finales) = Len(tokens)

\* C3: two fault-free runs of tokenizar_archivo_multicore on the same text, one
\* with worker count 1 and one with a worker count above 1, return the same
\* sequence of (tipo, valor, posicion, valido) tokens.
C3_ParallelismInvariance ==
    (/\ perfil = "multicore"
     /\ pc = "fin"
     /\ anterior # Ninguna
     /\ anterior.fallas = 0
     /\ Fallas = 0
     /\ (anterior.num_procesos = 1 \/ num_procesos = 1))
    => tokens_finales = anterior.tokens_finales

\* a one-worker run followed by a three-worker run that used three chunks
C3_Witness ==
    /\ perfil = "multicore"
    /\ pc = "fin"
    /\ anterior.num_procesos = 1
    /\ anterior.fallas = 0
    /\ num_procesos = 3
    /\ Len(chunks) = 3
    /\ Fallas = 0
    /\ Len(tokens_finales) > 2 * MinChunk

\* C4: whatever the order in which the futures complete and are collected,
\* the tokens of chunk k are in slot k and the returned stream is the slots
\* concatenated in chunk-id order.
C4_CompletionOrderIndependence ==
    (perfil = "multicore" /\ pc = "fin") =>
        /\ \A k \in 1..Len(chunks) :
               futuros[k].falla # -1 =>
                   /\ todos_los_tokens[k].asignado
                   /\ todos_los_tokens[k].tokens =
                          procesar_chunk_multicore(chunks[k], futuros[k].falla).tokens
        /\ tokens_finales =
               Concatenar([k \in 1..Len(chunks) |-> todos_los_tokens[k].tokens],
                          1, Len(chunks))

\* three chunks collected in the order 1, 2, 0
C4_Witness ==
    /\ perfil = "multicore"
    /\ pc = "fin"
    /\ Fallas = 0
    /\ Len(estadisticas_procesos) = 3
    /\ estadisticas_procesos[1].chunk_id = 1
    /\ estadisticas_procesos[2].chunk_id = 2
    /\ estadisticas_procesos[3].chunk_id = 0

\* C5: abort-whole-run: tokenizar_archivo_multicore returns a stream only if
\* no worker faulted.
C5_AbortWholeRun ==
    (perfil = "multicore" /\ pc = "fin") => Fallas = 0

\* C6: the lexeme lists of the chunks _dividir_en_chunks returned, concatenated
\* in chunk_id order, are the scanned lexeme list; chunk ids count from 0 and
\* no chunk is empty.
C6_ChunkSafety ==
    (perfil = "multicore" /\ pc \in {"recogiendo", "fin", "excepcion"}) =>
        /\ tokens =
               IF chunks = <<>> THEN <<>>
               ELSE Concatenar([k \in 1..Len(chunks) |-> chunks[k].tokens_texto],
                               1, Len(chunks))
        /\ \A k \in 1..Len(chunks) :
               chunks[k].tokens_texto # <<>> /\ chunks[k].chunk_id = k - 1

\* two workers, 301 lexemes: the last chunk takes the remaining 151
C6_Witness ==
    /\ perfil = "multicore"
    /\ pc = "recogiendo"
    /\ num_procesos = 2
    /\ Len(chunks) = 2
    /\ Len(chunks[1].tokens_texto) = 150
    /\ Len(chunks[2].tokens_texto) = 151

OperadoresDe(p) ==
    IF p = "python" THEN operadores_python
    ELSE IF p = "sql" THEN operadores_sql
    ELSE operadores_racket

\* C7: maximal munch: a text that is one multi-character operator of the
\* profile's operator set is scanned as exactly one lexeme.
C7_MaximalMunch ==
    (/\ perfil \in Perfiles
     /\ pc = "procesar"
     /\ Len(texto) > 1
     /\ texto \in OperadoresDe(perfil))
    => Len(tokens) = 1

\* C8: under the query profile, whose operator set has no "==", the text "==="
\* is tokenized as three "=" operator tokens.
C8_TripleEquals ==
    (perfil = "sql" /\ pc = "fin" /\ texto = "===") =>
        tokens_procesados = <<Token("OPERATOR", "=", 0, TRUE),
                              Token("OPERATOR", "=", 1, TRUE),
                              Token("OPERATOR", "=", 2, TRUE)>>

C8_Witness ==
    /\ perfil = "sql"
    /\ pc = "fin"
    /\ texto = "==="
    /\ Len(tokens_procesados) = 3

\* C8 as stated: under the query profile "===" is tokenized as "==" then "=".
C8_DoubleThenSingle ==
    (perfil = "sql" /\ pc = "fin" /\ texto = "===") =>
        /\ Len(tokens_procesados) = 2
        /\ tokens_procesados[1].valor = "=="
        /\ tokens_procesados[2].valor = "="

\* w is a case variant of a member of the set K of words
EsVarianteDe(w, K) == \E x \in K : upper(x) = upper(w)

\* C9: under the query profile every case variant of a keyword is classified
\* KEYWORD; under the imperative profile a keyword is classified KEYWORD only
\* in its exact case, and an identifier-shaped case variant that is not in the
\* keyword set is classified IDENTIFIER.
C9_KeywordCaseRule ==
    pc = "fin" =>
        \A k \in 1..Len(tokens_procesados) :
            LET t == tokens_procesados[k]
            IN  /\ (perfil = "sql" /\ upper(t.valor) \in keywords_sql)
                       => t.tipo = "KEYWORD"
                /\ (perfil = "python" /\ t.valor \in keywords_python)
                       => t.tipo = "KEYWORD"
                /\ (/\ perfil = "python"
                    /\ t.valor \notin keywords_python
                    /\ es_identificador_valido(t.valor)
                    /\ EsVarianteDe(t.valor, keywords_python \cup keywords_sql))
                       => t.tipo = "IDENTIFIER"

\* "Select" under the query profile
C9_Witness ==
    /\ perfil = "sql"
    /\ pc = "fin"
    /\ texto = "Select"
    /\ Len(tokens_procesados) = 1
    /\ tokens_procesados[1].tipo = "KEYWORD"

RECURSIVE BarrasAntes(_, _)
\* the number of consecutive backslashes that end right before index k
BarrasAntes(s, k) ==
    IF k > 0 /\ Car(s, k - 1) = "\\" THEN 1 + BarrasAntes(s, k - 1) ELSE 0

\* s is an opening quote followed by characters none of which is an unescaped
\* occurrence of that quote
StringSinCierre(s) ==
    /\ Len(s) > 1
    /\ Car(s, 0) \in {"\"", "'"}
    /\ \A k \in 1..(Len(s) - 1) :
           Car(s, k) = Car(s, 0) => BarrasAntes(s, k) % 2 = 1

\* C10: an unterminated string is tokenized by the imperative tokenizer as
\* exactly one token that spans the whole input and has valido false.
C10_UnterminatedString ==
    (perfil = "python" /\ pc = "fin" /\ StringSinCierre(texto)) =>
        /\ Len(tokens_procesados) = 1
        /\ tokens_procesados[1].valor = texto
        /\ ~tokens_procesados[1].valido

\* s is 0x followed by one or more hexadecimal digits
EsHexadecimal(s) ==
    /\ Len(s) > 2
    /\ Rebanada(s, 0, 2) = "0x"
    /\ \A k \in 2..(Len(s) - 1) : Car(s, k) \in DigitosHex

\* C11: a text that is a hexadecimal literal is tokenized under the imperative
\* profile as one NUMBER token with valido true, by the sequential tokenizer
\* and by a fault-free multicore run alike.
C11_HexLiterals ==
    (/\ perfil \in {"python", "multicore"}
     /\ pc = "fin"
     /\ Fallas = 0
     /\ EsHexadecimal(texto))
    => Flujo = <<Token("NUMBER", texto, 0, TRUE)>>

\* s is one or more digits, a slash, one or more digits
EsFraccion(s) ==
    LET p == PrimerIndice(s, {"/"})
    IN  /\ p > 0
        /\ p < Len(s) - 1
        /\ todos(Rebanada(s, 0, p), Digitos)
        /\ todos(Rebanada(s, p + 1, Len(s)), Digitos)

\* C12: a text digits/digits is tokenized as one NUMBER token under the
\* symbolic profile, and as the three tokens NUMBER, OPERATOR "/", NUMBER under
\* the imperative and the query profile.
C12_Fractions ==
    (perfil \in Perfiles /\ pc = "fin" /\ EsFraccion(texto)) =>
        LET p == PrimerIndice(texto, {"/"})
        IN  IF perfil = "racket"
            THEN tokens_procesados = <<Token("NUMBER", texto, 0, TRUE)>>
            ELSE tokens_procesados =
                     <<Token("NUMBER", Rebanada(texto, 0, p), 0, TRUE),
                       Token("OPERATOR", "/", p, TRUE),
                       Token("NUMBER", Rebanada(texto, p + 1, Len(texto)), p + 1, TRUE)>>

\* 3/4 under the symbolic profile
C12_Witness ==
    /\ perfil = "racket"
    /\ pc = "fin"
    /\ texto = "3/4"
    /\ Len(tokens_procesados) = 1
    /\ tokens_procesados[1].tipo = "NUMBER"

\* no fast-path predicate matches the lexeme v and the machine rejects it
Rechazado(p, v) ==
    /\ via_rapida(p, v) = ""
    /\ procesar_con_maquina_turing(p, v).accion = "RECHAZAR"

\* C13: a sequential run always returns one token per lexeme, each with the
\* valor and posicion of its lexeme, and a lexeme the fast path does not match
\* and the machine rejects is in the stream as an UNKNOWN token with valido
\* false; the run has no other outcome than its token stream.
C13_ErrorsAreData ==
    perfil \in Perfiles =>
        /\ pc \in {"separar", "procesar", "fin"}
        /\ pc = "fin" =>
               /\ Len(tokens_procesados) = Len(tokens)
               /\ \A k \in 1..Len(tokens) :
                      /\ tokens_procesados[k].valor = tokens[k].valor
                      /\ tokens_procesados[k].posicion = tokens[k].posicion
                      /\ Rechazado(perfil, tokens[k].valor) =>
                             /\ tokens_procesados[k].tipo = "UNKNOWN"
                             /\ ~tokens_procesados[k].valido

\* a character outside the alphabet between two identifiers
C13_Witness ==
    /\ perfil = "python"
    /\ pc = "fin"
    /\ texto = "i$f"
    /\ tokens_procesados = <<Token("IDENTIFIER", "i", 0, TRUE),
                             Token("UNKNOWN", "$", 1, FALSE),
                             Token("IDENTIFIER", "f", 2, TRUE)>>

AlfabetoDe(p) ==
    IF p = "python" THEN alfabeto_python
    ELSE IF p = "sql" THEN alfabeto_sql
    ELSE alfabeto_racket

\* C14: every token of a sequential run whose lexeme is one character that is
\* not white space and not in the alphabet of the profile is UNKNOWN with
\* valido false.
C14_InvalidCharacter ==
    (perfil \in Perfiles /\ pc = "fin") =>
        \A k \in 1..Len(tokens_procesados) :
            LET t == tokens_procesados[k]
            IN  (/\ Len(t.valor) = 1
                 /\ strip(t.valor) # ""
                 /\ t.valor \notin AlfabetoDe(perfil))
                => (t.tipo = "UNKNOWN" /\ ~t.valido)

\* v is a block-comment lexeme of profile p that lacks its closer
ComentarioSinCierre(p, v) ==
    \/ p = "sql" /\ startswith(v, "/*") /\ ~contiene(Rebanada(v, 2, Len(v)), "*/")
    \/ p = "racket" /\ startswith(v, "#|") /\ ~contiene(Rebanada(v, 2, Len(v)), "|#")

\* C15: in the stream of a sequential run a double-quoted string lexeme without
\* its closing quote is a STRING token with valido false, and a block-comment
\* lexeme without its closer is a COMMENT token with valido false.
C15_UnterminatedLiteral ==
    (perfil \in Perfiles /\ pc = "fin") =>
        \A k \in 1..Len(tokens_procesados) :
            LET t == tokens_procesados[k]
            IN  /\ (Car(t.valor, 0) = "\"" /\ StringSinCierre(t.valor))
                       => (t.tipo = "STRING" /\ ~t.valido)
                /\ ComentarioSinCierre(perfil, t.valor)
                       => (t.tipo = "COMMENT" /\ ~t.valido)

\* C16: every iteration of the scanner loop appends exactly one non-empty
\* lexeme, which starts at the old read position and ends at the new one, and
\* strictly advances the read position without passing the end of the text; a
\* started scan ends, with the read position equal to the length of the text.
C16_ScannerProgress ==
    /\ [][SepararPaso =>
              /\ i < i'
              /\ i' <= Len(texto)
              /\ Len(tokens') = Len(tokens) + 1
              /\ tokens'[Len(tokens')].valor # ""
              /\ tokens'[Len(tokens')].posicion = i
              /\ i + Len(tokens'[Len(tokens')].valor) = i']_vars
    /\ [](perfil \in Perfiles /\ pc # "separar" => i = Len(texto))
    /\ (perfil \in Perfiles /\ pc = "separar") ~> (pc = "procesar" /\ i = Len(texto))

\* "$" is matched by no rule of the imperative scanner
C16_Witness ==
    /\ perfil = "python"
    /\ pc = "procesar"
    /\ texto = "i$f"
    /\ i = 3
    /\ tokens = <<Lexema(texto, 0, 1), Lexema(texto, 1, 2), Lexema(texto, 2, 3)>>

\* C17: each iteration of the classification loop returns a token, and the
\* machine run on a lexeme of n characters makes at most n + 1 transitions; a
\* started sequential classification ends, and in a multicore run every future
\* is eventually collected, after which the run leaves the collection loop.
C17_ClassificationTerminates ==
    /\ [][ProcesarPaso =>
              LET v == tokens[indice + 1].valor
              IN  /\ procesar_con_maquina_turing(perfil, v).pasos <= Len(v) + 1
                  /\ Len(tokens_procesados') = Len(tokens_procesados) + 1
                  /\ Len(maquina'.buffer_token) <=
                         Max(Len(maquina.buffer_token), Len(v) + 1)]_vars
    /\ (pc = "procesar") ~> (pc = "fin")
    /\ (pc = "recogiendo") ~>
           (\A k \in 1..Len(futuros) : futuros[k].estado = "recogido")
    /\ (pc = "recogiendo") ~> (pc \in {"fin", "excepcion"})

\* the machine read the four characters of an unterminated string and the
\* sentinel
C17_Witness ==
    /\ perfil = "python"
    /\ pc = "fin"
    /\ texto = "\"abc"
    /\ Len(tokens_procesados) = 1
    /\ maquina.buffer_token = "\"abc "
    /\ procesar_con_maquina_turing(perfil, texto).pasos = 5

\* the chunks of a run whose lexeme count is at least the worker count
ChunksDivididos ==
    /\ perfil = "multicore"
    /\ pc \in {"recogiendo", "fin"}
    /\ Len(tokens) >= num_procesos

\* C18: when the lexeme count n is at least the worker count W, every chunk
\* except the last holds exactly max(MinChunk, n \div W) lexemes, and the last
\* chunk holds all the remaining lexemes.
C18_ChunkLength ==
    ChunksDivididos =>
        LET n == Len(tokens)
            chunk_size == Max(MinChunk, n \div num_procesos)
        IN  /\ Len(chunks) >= 1
            /\ \A k \in 1..(Len(chunks) - 1) :
                   Len(chunks[k].tokens_texto) = chunk_size
            /\ Len(chunks[Len(chunks)].tokens_texto) =
                   n - (Len(chunks) - 1) * chunk_size
            /\ Len(chunks[Len(chunks)].tokens_texto) >= 1

\* 301 lexemes and two workers: 301 \div 2 is more than MinChunk
C18_Witness ==
    /\ ChunksDivididos
    /\ num_procesos = 2
    /\ Len(tokens) = 3 * MinChunk + 1
    /\ Len(chunks) = 2
    /\ Len(chunks[1].tokens_texto) = (3 * MinChunk + 1) \div 2

\* C18 as stated: when the lexeme count n is at least W, every chunk except the
\* last holds exactly max(MinChunk, n \div (2 * W)) lexemes.
C18_ChunkLengthHalf ==
    ChunksDivididos =>
        \A k \in 1..(Len(chunks) - 1) :
            Len(chunks[k].tokens_texto) =
                Max(MinChunk, Len(tokens) \div (2 * num_procesos))

\* C19: when the lexeme count is smaller than the worker count, there is
\* exactly one chunk per lexeme, and the chunk with chunk_id k - 1 holds the
\* k-th lexeme alone.
C19_SmallInputs ==
    (/\ perfil = "multicore"
     /\ pc \in {"recogiendo", "fin", "excepcion"}
     /\ Len(tokens) < num_procesos)
    => /\ Len(chunks) = Len(tokens)
       /\ \A k \in 1..Len(chunks) :
              /\ chunks[k].chunk_id = k - 1
              /\ chunks[k].tokens_texto = <<tokens[k]>>

\* two lexemes, three workers
C19_Witness ==
    /\ perfil = "multicore"
    /\ pc = "recogiendo"
    /\ num_procesos = 3
    /\ texto = "a="
    /\ Len(chunks) = 2
    /\ chunks[2].tokens_texto = <<Lexema(texto, 1, 2)>>

\* a multicore run called without a worker count, past the choice of the count
SinArgumento ==
    /\ perfil = "multicore"
    /\ argumento = 0
    /\ pc # "inicio"

\* C20: when no worker count is given, the worker count used on a machine of
\* c cores is max(2, c - 1) for c >= 2, and 1 for c = 1.
C20_DefaultWorkers ==
    SinArgumento =>
        /\ num_cores >= 2 => num_procesos = Max(2, num_cores - 1)
        /\ num_cores = 1 => num_procesos = 1

\* four cores: three workers
C20_Witness ==
    /\ SinArgumento
    /\ pc = "recogiendo"
    /\ num_cores = 4
    /\ num_procesos = 3

\* C20 as stated: when no worker count is given, the worker count used is
\* max(2, c - 1) for every number c >= 1 of cores.
C20_FloorTwo ==
    (SinArgumento /\ num_cores >= 1) => num_procesos = Max(2, num_cores - 1)

\* C21: the tipo and valido that an iteration of the classification loop
\* appends for a lexeme are those a machine instance that classified nothing
\* before gives for the same text, whatever the machine holds from the lexemes
\* before, and the machine is left as the fresh instance would be left; every
\* token a worker returned is the one a fresh worker instance gives for its text.
C21_NoCrossTokenContext ==
    /\ [][(ProcesarPaso /\ strip(tokens[indice + 1].valor) # "") =>
              LET v == tokens[indice + 1].valor
                  t == tokens_procesados'[Len(tokens_procesados')]
                  r == clasificar_desde(perfil, MaquinaInicial, v)
              IN  /\ t.valor = v
                  /\ t.tipo = r.tipo
                  /\ t.valido = r.valido
                  /\ maquina'.estado_actual = r.estado_actual
                  /\ maquina'.buffer_token = r.buffer_token]_vars
    /\ [](\A k \in 1..Len(futuros) :
              futuros[k].estado # "enviado" /\ futuros[k].resultado # SinResultado =>
                  \A j \in 1..Len(futuros[k].resultado.tokens) :
                      LET t == futuros[k].resultado.tokens[j]
                          r == clasificar_desde("multicore", MaquinaInicial, t.valor)
                      IN  t.tipo = r.tipo /\ t.valido = r.valido)

\* two lexemes in a row went through the machine, and the first one left it
\* in another state than INICIAL
C21_Witness ==
    /\ perfil \in Perfiles
    /\ pc = "procesar"
    /\ indice >= 2
    /\ via_rapida(perfil, tokens[indice - 1].valor) = ""
    /\ via_rapida(perfil, tokens[indice].valor) = ""
    /\ strip(tokens[indice - 1].valor) # ""
    /\ procesar_con_maquina_turing(perfil, tokens[indice - 1].valor).estado_actual
           # "INICIAL"
    /\ Len(tokens_procesados) = indice

\* the words the keyword match and the builtin, function or datatype match of
\* profile p accept
PalabrasDe(p) ==
    IF p = "python" THEN keywords_python
    ELSE IF p = "sql" THEN keywords_sql \cup functions_sql \cup datatypes_sql
    ELSE keywords_racket \cup builtins_racket

\* C22: in the stream of a sequential run, a token whose lexeme is in the
\* operator set of the profile and also in its keyword set or its builtin,
\* function or datatype set is an OPERATOR token.
C22_FastPathPrecedence ==
    (perfil \in Perfiles /\ pc = "fin") =>
        \A k \in 1..Len(tokens_procesados) :
            LET t == tokens_procesados[k]
                palabra == IF perfil = "sql" THEN upper(t.valor) ELSE t.valor
            IN  (t.valor \in OperadoresDe(perfil) /\ palabra \in PalabrasDe(perfil))
                => t.tipo = "OPERATOR"

\* s is an integer or decimal numeral: an optional sign, then digits with at
\* most one decimal point and at least one digit
EsNumeral(s) ==
    LET u == SinSigno(s)
        p == PrimerIndice(u, {"."})
    IN  /\ u # ""
        /\ todos(u, Digitos \cup {"."})
        /\ \E k \in 0..(Len(u) - 1) : isdigit(Car(u, k))
        /\ p # -1 => ~contiene(Rebanada(u, p + 1, Len(u)), ".")

\* s is a numeral, a fraction of two non-empty numerals, or a non-empty
\* numeral followed by the complex suffix
EsNumeroSimbolico(s) ==
    LET p == PrimerIndice(s, {"/"})
    IN  \/ EsNumeral(s)
        \/ /\ p # -1
           /\ EsNumeral(Rebanada(s, 0, p))
           /\ EsNumeral(Rebanada(s, p + 1, Len(s)))
        \/ /\ endswith(s, "i") \/ endswith(s, "I")
           /\ EsNumeral(Rebanada(s, 0, Len(s) - 1))

\* C23: in the stream of a run of the symbolic profile, the numeric predicate
\* accepts the lexeme of a token only if it is a numeral, a fraction or a
\* numeral with the complex suffix, each numeral part non-empty, and no other
\* lexeme is a NUMBER token.
C23_SymbolicNumericParse ==
    (perfil = "racket" /\ pc = "fin") =>
        \A k \in 1..Len(tokens_procesados) :
            LET t == tokens_procesados[k]
            IN  (es_numero_racket(t.valor) \/ t.tipo = "NUMBER")
                => EsNumeroSimbolico(t.valor)

\* C24: every token a worker returned has the tipo and valido that
\* procesar_token_individual of the sequential imperative classifier gives for
\* the same lexeme.
C24_WorkerLikeSequential ==
    perfil = "multicore" =>
        \A k \in 1..Len(futuros) :
            \A j \in 1..Len(futuros[k].resultado.tokens) :
                LET t == futuros[k].resultado.tokens[j]
                    r == clasificar("python", t.valor)
                IN  t.tipo = r.tipo /\ t.valido = r.valido

\* C25: in a run of the query or the symbolic profile, a lexeme that starts
\* with the block-comment open marker and holds no close marker after it ends
\* at the end of the text.
C25_UnterminatedBlockComment ==
    (perfil \in {"sql", "racket"} /\ pc \in {"procesar", "fin"}) =>
        \A k \in 1..Len(tokens) :
            ComentarioSinCierre(perfil, tokens[k].valor)
                => tokens[k].posicion + Len(tokens[k].valor) = Len(texto)

\* the text open open close close of the block-comment markers of profile p
ComentarioAnidado(p) == IF p = "sql" THEN "/* /* */ */" ELSE "#| #| |# |#"

\* C26: when the scan of a nested block comment of the query or the symbolic
\* profile has ended, at least one of the two scanners, which are the only ones
\* with a block-comment rule, gives the nested comment of its markers as one
\* lexeme.
C26_BlockCommentNesting ==
    (/\ perfil \in {"sql", "racket"}
     /\ pc = "procesar"
     /\ texto = ComentarioAnidado(perfil))
    => \E p \in {"sql", "racket"} :
           /\ (p = perfil => Len(tokens) = 1)
           /\ Len(separar_tokens(p, ComentarioAnidado(p))) = 1

\* the characters that open a string under profile p
ComillasDe(p) ==
    IF p = "python" THEN {"\"", "'"}
    ELSE IF p = "sql" THEN {"\"", "'", Backtick}
    ELSE {"\""}

\* the string that starts with the opening quote at index 0 of s: up to and
\* including the first later occurrence of that quote that no backslash skips
\* (a quote is skipped when an odd number of backslashes stands right before
\* it), or the whole of s when there is none
StringDesde(s) ==
    LET cierres == {k \in 1..(Len(s) - 1) :
                        Car(s, k) = Car(s, 0) /\ BarrasAntes(s, k) % 2 = 0}
    IN  IF cierres = {} THEN s
        ELSE Rebanada(s, 0, 1 + CHOOSE k \in cierres : \A j \in cierres : k <= j)

\* C27: an iteration of a scanner loop that starts at an opening quote appends
\* the lexeme that ends at the first later unskipped occurrence of the same
\* quote, or at the end of the text when there is none, and so does an
\* iteration of the imperative scanner that starts at the f of an f-string;
\* the read position never exceeds the length of the text.
C27_StringBoundary ==
    /\ [][SepararPaso =>
              LET v == tokens'[Len(tokens')].valor
                  resto == Rebanada(texto, i, Len(texto))
              IN  /\ Car(texto, i) \in ComillasDe(perfil) => v = StringDesde(resto)
                  /\ (/\ perfil = "python"
                      /\ Car(texto, i) = "f"
                      /\ i + 1 < Len(texto)
                      /\ Car(texto, i + 1) \in ComillasDe(perfil))
                     => v = "f" \o StringDesde(Tail(resto))
                  /\ i' <= Len(texto)]_vars
    /\ [](i <= Len(texto))

\* a string with an escaped quote inside, closed by the next quote
C27_Witness ==
    /\ perfil = "python"
    /\ pc = "procesar"
    /\ texto = "\"\\\"\"a"
    /\ tokens = <<Lexema(texto, 0, 4), Lexema(texto, 4, 5)>>

\* v starts with the line-comment marker of profile p
ComentarioDeLinea(p, v) ==
    IF p = "python" THEN startswith(v, "#")
    ELSE IF p = "sql" THEN startswith(v, "--")
    ELSE startswith(v, ";")

\* C28: in the lexemes of a finished scan, a lexeme that starts at an opening
\* quote is the whole string, comment markers inside it included; a lexeme
\* that starts at a line-comment marker runs to the first line break after the
\* marker or to the end of the text, quotes inside it included, does not hold
\* the line break, and is followed by the line break as a lexeme of its own.
C28_RulePriority ==
    (perfil \in Perfiles /\ pc \in {"procesar", "fin"}) =>
        \A k \in 1..Len(tokens) :
            LET v == tokens[k].valor
                fin == tokens[k].posicion + Len(v)
                resto == Rebanada(texto, tokens[k].posicion, Len(texto))
                salto == PrimerIndice(resto, {"\n", "\r"})
            IN  /\ Car(v, 0) \in ComillasDe(perfil) => v = StringDesde(resto)
                /\ ComentarioDeLinea(perfil, v) =>
                       /\ v = (IF salto = -1 THEN resto ELSE Rebanada(resto, 0, salto))
                       /\ ~contiene(v, "\n") /\ ~contiene(v, "\r")
                       /\ fin < Len(texto) =>
                              /\ k < Len(tokens)
                              /\ tokens[k + 1].valor = Car(texto, fin)
                              /\ tokens[k + 1].valor \in {"\n", "\r"}

\* a string that holds the comment marker, then a comment that holds a quote,
\* then the line break
C28_Witness ==
    /\ perfil = "python"
    /\ pc = "procesar"
    /\ texto = "\"#\"#\"\n"
    /\ tokens = <<Lexema(texto, 0, 3), Lexema(texto, 3, 5), Lexema(texto, 5, 6)>>

\* C29: in the lexemes of a scan of the imperative or the query profile, a
\* lexeme of the number rule, which is one that starts with a digit or with a
\* decimal point and a digit, holds at most one decimal point.
C29_SingleDecimalPoint ==
    (perfil \in {"python", "sql"} /\ pc \in {"procesar", "fin"}) =>
        \A k \in 1..Len(tokens) :
            LET v == tokens[k].valor
            IN  (isdigit(Car(v, 0)) \/ (Car(v, 0) = "." /\ Len(v) > 1))
                => Cardinality({j \in 0..(Len(v) - 1) : Car(v, j) = "."}) <= 1

(***************************************************************************)
(* procesar_token_individual called on a lexeme of the caller's choice,    *)
(* with the loop of _procesar_con_maquina_turing taken one transition at a *)
(* time.  texto is token_texto, i the index into texto_con_centinela, and  *)
(* tokens_procesados receives the token the call returns.                  *)
(***************************************************************************)
AlfMaquina == {"=", ">", "i", "f", "\n", "\"", "/", "*"}

LexemasMaquina == Textos(AlfMaquina, MaxLen) \ {""}

InitMaquina ==
    /\ perfil \in Perfiles
    /\ texto \in LexemasMaquina
    /\ pc = "clasificar"
    /\ i = 0
    /\ tokens = <<>>
    /\ indice = 0
    /\ maquina = MaquinaInicial
    /\ tokens_procesados = <<>>
    /\ num_procesos = 0
    /\ chunks = <<>>
    /\ futuros = <<>>
    /\ todos_los_tokens = <<>>
    /\ estadisticas_procesos = <<>>
    /\ tokens_finales = <<>>
    /\ estadisticas_finales = SinEstadisticas
    /\ anterior = Ninguna
    /\ num_cores = 0
    /\ argumento = 0

\* the reset and the fast-path predicates
ViaRapida ==
    /\ pc = "clasificar"
    /\ maquina' = reiniciar_estado(maquina)
    /\ LET r == via_rapida(perfil, texto)
       IN  IF r # ""
           THEN /\ tokens_procesados' = <<Token(r, texto, 0, TRUE)>>
                /\ pc' = "fin"
           ELSE /\ tokens_procesados' = tokens_procesados
                /\ pc' = "maquina"
    /\ UNCHANGED <<perfil, texto, i, tokens, indice>>
    /\ UNCHANGED varsMulticore

\* one iteration of the for loop over texto_con_centinela
TransicionPaso ==
    /\ pc = "maquina"
    /\ i < Len(texto) + 1
    /\ LET c == Car(texto \o " ", i)
           b2 == maquina.buffer_token \o c
           t == transicion(perfil, maquina.estado_actual, b2, c)
           r == IF t.accion = "RECHAZAR"
                THEN Res("UNKNOWN", FALSE, maquina.estado_actual, b2, i + 1, t.accion)
                ELSE IF t.estado \in EstadosAceptados(perfil)
                THEN Res(TipoDeEstado(perfil, t.estado, texto), TRUE,
                         maquina.estado_actual, b2, i + 1, t.accion)
                ELSE PorEstadoFinal(perfil, texto, maquina.estado_actual, b2,
                                    i + 1, t.accion)
       IN  IF t.accion = "LEER"
           THEN /\ maquina' = [estado_actual |-> t.estado, buffer_token |-> b2]
                /\ UNCHANGED <<pc, tokens_procesados>>
           ELSE /\ maquina' = [estado_actual |-> maquina.estado_actual,
                               buffer_token |-> b2]
                /\ tokens_procesados' = <<Token(r.tipo, texto, 0, r.valido)>>
                /\ pc' = "fin"
    /\ i' = i + 1
    /\ UNCHANGED <<perfil, texto, tokens, indice>>
    /\ UNCHANGED varsMulticore

\* the loop ends without an accepting or rejecting transition
TransicionFin ==
    /\ pc = "maquina"
    /\ i >= Len(texto) + 1
    /\ LET r == PorEstadoFinal(perfil, texto, maquina.estado_actual,
                               maquina.buffer_token, i, "LEER")
       IN  tokens_procesados' = <<Token(r.tipo, texto, 0, r.valido)>>
    /\ pc' = "fin"
    /\ UNCHANGED <<perfil, texto, i, tokens, indice, maquina>>
    /\ UNCHANGED varsMulticore

NextMaquina == ViaRapida \/ TransicionPaso \/ TransicionFin

SpecMaquina == InitMaquina /\ [][NextMaquina]_vars

Acciones == {"LEER", "ACEPTAR", "ACEPTAR_RETROCEDER", "RECHAZAR"}

\* C30: every transition the machine makes returns one new state and one of
\* the four actions, and the pair is the one the transition function returns
\* from the same state on the same character whatever the buffer holds before
\* the character.
C30_TransitionFunction ==
    [][TransicionPaso =>
           LET c == Car(texto \o " ", i)
               t == transicion(perfil, maquina.estado_actual,
                               maquina.buffer_token \o c, c)
           IN  /\ t.accion \in Acciones
               /\ \A b \in LexemasMaquina :
                      transicion(perfil, maquina.estado_actual, b \o c, c) = t]_vars

\* C31: when an iteration of the classification loop sends a lexeme through
\* the machine and the machine accepts it with ACEPTAR_RETROCEDER, the valor of
\* the token appended ends one character before the character that triggered
\* the acceptance: it is the part of the lexeme read before that character.
C31_PushbackKeepsTrigger ==
    [][(ProcesarPaso /\ strip(tokens[indice + 1].valor) # "") =>
           LET v == tokens[indice + 1].valor
               r == clasificar_desde(perfil, maquina, v)
               t == tokens_procesados'[Len(tokens_procesados')]
           IN  (r.accion = "ACEPTAR_RETROCEDER" /\ r.valido)
               => t.valor = Rebanada(v \o " ", 0, r.pasos - 1)]_vars

\* C32: classification emits exactly one token per scanned lexeme, in the
\* order of the lexemes, each with the valor and the posicion of its lexeme:
\* in a sequential run the tokens classified so far are those of the first
\* indice lexemes, and the result of a worker that ran to the end of its loop
\* holds one token for every lexeme of its chunk.
UnoPorLexema(ts, lexemas) ==
    /\ Len(ts) = Len(lexemas)
    /\ \A j \in 1..Len(lexemas) :
           /\ ts[j].valor = lexemas[j].valor
           /\ ts[j].posicion = lexemas[j].posicion

RECURSIVE SumaSec(_)
SumaSec(ns) == IF ns = <<>> THEN 0 ELSE Head(ns) + SumaSec(Tail(ns))

RECURSIVE SumaConteo(_, _)
SumaConteo(conteo, tipos) ==
    IF tipos = {} THEN 0
    ELSE LET tp == CHOOSE x \in tipos : TRUE
         IN  conteo[tp] + SumaConteo(conteo, tipos \ {tp})

InvalidoSiiUnknown(ts) ==
    \A j \in 1..Len(ts) : (~ts[j].valido) <=> (ts[j].tipo = "UNKNOWN")

C34_InvalidIffUnknown ==
    /\ InvalidoSiiUnknown(tokens_procesados)
    /\ \A k \in 1..Len(futuros) : InvalidoSiiUnknown(futuros[k].resultado.tokens)
    /\ InvalidoSiiUnknown(tokens_finales)

\* a sequential run has ended with a token the machine rejected as UNKNOWN
\* and a valid token that went through the machine
C34_Witness ==
    /\ perfil # "multicore" /\ pc = "fin"
    /\ \E j \in 1..Len(tokens_procesados) : tokens_procesados[j].tipo = "UNKNOWN"
    /\ \E j \in 1..Len(tokens_procesados) :
           /\ tokens_procesados[j].valido
           /\ strip(tokens_procesados[j].valor) # ""
           /\ via_rapida(perfil, tokens_procesados[j].valor) = ""

\* C35: in the stream a tokenizer returns, the valor of every token is the
\* part of the input text that starts at its posicion, the first token starts
\* at 0 and every other token starts where the token before it ends.
ExactoYContiguo(ts, contenido) ==
    \A j \in 1..Len(ts) :
        /\ ts[j].posicion + Len(ts[j].valor) <= Len(contenido)
        /\ ts[j].valor =
               Rebanada(contenido, ts[j].posicion, ts[j].posicion + Len(ts[j].valor))
        /\ ts[j].posicion =
               IF j = 1 THEN 0 ELSE ts[j - 1].posicion + Len(ts[j - 1].valor)

C36_SlotSafety ==
    /\ []((perfil = "multicore" /\ pc \in {"recogiendo", "fin"}) =>
             /\ Len(chunks) <= num_procesos
             /\ \A k \in 1..Len(chunks) : chunks[k].chunk_id = k - 1
             /\ Len(todos_los_tokens) = Len(chunks))
    /\ [][\A k \in 1..Len(futuros) :
             (Recoger(k) /\ futuros[k].falla # -1) =>
                 LET slot == futuros[k].resultado.chunk_id + 1
                 IN  /\ slot \in 1..Len(todos_los_tokens)
                     /\ ~todos_los_tokens[slot].asignado
                     /\ todos_los_tokens'[slot].asignado
                     /\ \A q \in 1..Len(todos_los_tokens) :
                            q # slot => todos_los_tokens'[q] = todos_los_tokens[q]]_vars

\* the results of three chunks have been stored, the last chunk's first
C36_Witness ==
    /\ perfil = "multicore" /\ pc = "fin"
    /\ Len(chunks) = 3
    /\ \A q \in 1..3 : todos_los_tokens[q].asignado
    /\ estadisticas_procesos[1].chunk_id = 2

\* C37: a run of tokenizar_archivo_multicore on a text without lexemes does
\* not raise: it never reaches the state in which an exception has left the
\* call.
C37_EmptyInputReturns ==
    (perfil = "multicore" /\ texto = "") => pc # "excepcion"

\* C38: in the stream of a symbolic run, a token that starts where the text
\* reads #true or #false is that literal whole and is classified BOOLEAN,
\* also when the literal ends the text.
C38_BooleanLiterals ==
    (perfil = "racket" /\ pc = "fin") =>
        \A j \in 1..Len(tokens_procesados) :
            \A literal \in {"#true", "#false"} :
                LET q == tokens_procesados[j].posicion
                IN  (/\ q + Len(literal) <= Len(texto)
                     /\ Rebanada(texto, q, q + Len(literal)) = literal)
                    => /\ tokens_procesados[j].valor = literal
                       /\ tokens_procesados[j].tipo = "BOOLEAN"

\* C39: in the query profile's machine, reading * in the block-comment state
\* moves to the block-comment-asterisk state, and reading / in the asterisk
\* state accepts the lexeme as COMMENT.
C39_BlockCommentStates ==
    [][(TransicionPaso /\ perfil = "sql") =>
           LET c == Car(texto \o " ", i)
           IN  /\ (maquina.estado_actual = "COMENTARIO_BLOQUE_INICIADO" /\ c = "*")
                      => /\ pc' = "maquina"
                         /\ maquina'.estado_actual = "COMENTARIO_BLOQUE_ASTERISCO"
               /\ (maquina.estado_actual = "COMENTARIO_BLOQUE_ASTERISCO" /\ c = "/")
                      => tokens_procesados' = <<Token("COMMENT", texto, 0, TRUE)>>]_vars

====
